---------------------------- MODULE Spec2Model ----------------------------
(***************************************************************************)
(* Model of the search-expression engine of rest-api                       *)
(* (rest_api/entities/search_models.py) and of the helpers it calls.       *)
(*                                                                         *)
(* A request carries a raw JSON payload.  The payload is deserialized into *)
(* a tree of search models (pydantic validation driven by the              *)
(* `discriminator` validator), the tree is serialized back with            *)
(* dict(exclude_unset=True), rendered into a SQLAlchemy condition with     *)
(* render_condition(), and the condition is executed as the WHERE clause   *)
(* of a SELECT over the rows of the entity's table.                        *)
(***************************************************************************)
EXTENDS Integers, Sequences, FiniteSets, TLC

VARIABLES
    payload,    \* the raw value handed to the deserializer
    target,     \* what it is deserialized into: "SearchModel" or a class name
    model,      \* the deserialized tree, an error, or Nothing
    dumped,     \* model.dict(exclude_unset=True), or Nothing
    reparsed,   \* the tree deserialized again from `dumped`, or Nothing
    condition,  \* model.render_condition(), or Nothing
    results,    \* outcome of SELECT <entity> WHERE condition, or Nothing
    instances,  \* outcome of entities_for_search_model(payload), or Nothing
    entity_class, \* outcome of entity_class_for_tree(model), or Nothing
    assigned,   \* the last assignment to a field of `model`, or Nothing
    assigns,    \* the number of assignments made to `model`
    users,      \* the rows of the users table
    companies,  \* the rows of the companies table
    backend,    \* the database that DATABASE_URL names: "sqlite" or "postgresql"
    sequence,   \* the last id drawn from the id sequence of each table
    response,   \* the last request of the REST API and its status, or Nothing
    deleted,    \* the <<table, id>> deleted since the last create in the table
    subject,    \* a mapping or a record handed to the introspection helpers
    fetched,    \* the last call of has_field / get_field on `subject`, or Nothing
    heap,       \* the node instances built in the process, in order of construction
    rendered,   \* outcome of render_condition() on a node of `heap`, or Nothing
    database,   \* the rows that are committed to the database
    scope,      \* the session of ephemeral_transaction_scope, or Nothing
    markdown,   \* the Markdown file that MarkdownSlicer reads, or Nothing
    slicer      \* the MarkdownSlicer built from it, the error raised, or Nothing

\* the variables of the deserialize / serialize / render / search pipeline
searchVars == <<payload, target, model, dumped, reparsed, condition, results>>
\* the variables of the operations on trees
treeVars == <<instances, entity_class, assigned, assigns>>

\* the variables of the CRUD endpoints
apiVars == <<users, companies, backend, sequence, response, deleted>>

\* the variables of the introspection helpers
fieldVars == <<subject, fetched>>

\* the variables of the node instances that callers build and assign to
heapVars == <<heap, rendered>>

\* the state of an ephemeral transaction scope and of the database under it
scopeVars == <<database, scope>>

\* the variables of the slicing of the API documentation
slicerVars == <<markdown, slicer>>

vars == <<searchVars, treeVars, apiVars, fieldVars, heapVars, scopeVars, slicerVars>>

-----------------------------------------------------------------------------
(* Bounds of the model *)

\* largest number of nodes of a raw payload that may hold invalid nodes
MaxRawNodes == 3
\* largest number of nodes of a well-formed payload that is rendered
MaxNodes == 4
\* integers that occur in payloads and rows are 1..MaxInt
MaxInt == 2
\* largest number of nodes of a tree whose fields are assigned to
MaxAssignNodes == 2
\* largest number of assignments made to one tree
MaxAssigns == 2
\* largest id that the database gives to a user or to a company
MaxId == 2
\* largest number of node instances built in one process
MaxObjects == 3

-----------------------------------------------------------------------------
(* Python / JSON values.  Every value is a record with a kind `k`.         *)

PyInt(n)  == [k |-> "int", i |-> n]
PyStr(s)  == [k |-> "str", s |-> s]
PyNone    == [k |-> "null"]
PyDict(m)  == [k |-> "map", m |-> m]
PyList(l)  == [k |-> "list", l |-> l]
\* an instance of a search model class: all its fields, and model_fields_set
Model(cls, f, set) == [k |-> "model", cls |-> cls, f |-> f, set |-> set]
\* a raised ValidationError / ValueError
Err(msg) == [k |-> "error", msg |-> msg, loc |-> {}]
\* a ValidationError whose lines are located at the given paths: a path is
\* the sequence of field names and list indexes that leads to the input
ErrAt(msg, loc) == [k |-> "error", msg |-> msg, loc |-> loc]
\* a variable that holds no value yet
Nothing  == [k |-> "nothing"]

IsErr(v)   == v.k = "error"
IsModel(v) == v.k = "model"

-----------------------------------------------------------------------------
(* rest_api/helpers/introspection.py *)

has_field(obj, field) ==
    IF obj.k = "map" THEN field \in DOMAIN obj.m
    ELSE obj.k = "model" /\ field \in DOMAIN obj.f

\* a get_field that answers None for a field that does not exist
get_field_or_none(obj, field) ==
    IF obj.k = "map"
    THEN IF field \in DOMAIN obj.m THEN obj.m[field] ELSE PyNone
    ELSE IF obj.k = "model" /\ field \in DOMAIN obj.f THEN obj.f[field]
         ELSE PyNone

\* the value of the field, or the KeyError / AttributeError that is raised
get_field(obj, field) ==
    IF obj.k = "map"
    THEN IF field \in DOMAIN obj.m THEN obj.m[field] ELSE Err("KeyError")
    ELSE IF obj.k = "model" /\ field \in DOMAIN obj.f THEN obj.f[field]
         ELSE Err("AttributeError")

\* the items or attributes `stored` with `field` bound to `value`
with_field(stored, field, value) ==
    [name \in DOMAIN stored \cup {field} |->
        IF name = field THEN value ELSE stored[name]]

\* a set_field that leaves a field that exists as it is
set_field_if_absent(obj, field, value) ==
    IF obj.k = "map"
    THEN [old |-> IF field \in DOMAIN obj.m THEN obj.m[field] ELSE PyNone,
          obj |-> IF field \in DOMAIN obj.m THEN obj
                  ELSE PyDict(with_field(obj.m, field, value))]
    ELSE [old |-> IF has_field(obj, field) THEN obj.f[field] ELSE PyNone,
          obj |-> IF has_field(obj, field) THEN obj
                  ELSE Model(obj.cls, with_field(obj.f, field, value),
                             obj.set \cup {field})]

\* the old value that set_field returns, and obj as it is afterwards
set_field(obj, field, value) ==
    IF obj.k = "map"
    THEN [old |-> IF field \in DOMAIN obj.m THEN obj.m[field] ELSE PyNone,
          obj |-> PyDict(with_field(obj.m, field, value))]
    ELSE [old |-> IF has_field(obj, field) THEN obj.f[field] ELSE PyNone,
          obj |-> Model(obj.cls, with_field(obj.f, field, value),
                        obj.set \cup {field})]

-----------------------------------------------------------------------------
(* The classes of search_models.py *)

\* the members of the SearchModel union, in declared order
SearchModel ==
    <<"NotSearchModel", "OrSearchModel", "AndSearchModel",
      "UserSearchModel", "CompanySearchModel">>

Classes == {SearchModel[i] : i \in DOMAIN SearchModel}

EntityClasses == {"UserSearchModel", "CompanySearchModel"}

\* the declared fields of a class, in declaration order
FieldSeq(cls) ==
    CASE cls = "NotSearchModel"     -> <<"type", "child">>
      [] cls = "OrSearchModel"      -> <<"type", "children">>
      [] cls = "AndSearchModel"     -> <<"type", "children">>
      [] cls = "UserSearchModel"    ->
            <<"type", "id", "first_name", "last_name", "email", "company_id">>
      [] cls = "CompanySearchModel" -> <<"type", "id", "name">>

FieldSet(cls) == {FieldSeq(cls)[i] : i \in DOMAIN FieldSeq(cls)}

\* the declared type of a field
FieldType(cls, field) ==
    CASE field = "type"                                   -> "str"
      [] field = "child"                                  -> "SearchModel"
      [] field = "children"                               -> "list[SearchModel]"
      [] field \in {"id", "company_id"}                   -> "Optional[int]"
      [] field \in {"first_name", "last_name", "email", "name"} -> "Optional[str]"

\* child and children are required; every other field has a default
HasDefault(cls, field) == field \notin {"child", "children"}

\* the class default of a field
Default(cls, field) ==
    IF field = "type"
    THEN PyStr(SubSeq(cls, 1, Len(cls) - Len("SearchModel")))
    ELSE PyNone

-----------------------------------------------------------------------------
(* Deserialization: BaseSearchModel.discriminator and pydantic validation  *)

\* str(t) as the f-string of line 65 formats it
Format(t) ==
    CASE t.k = "str" -> t.s
      [] t.k = "int" -> ToString(t.i)
      [] OTHER       -> "<" \o t.k \o ">"

\* the discriminator that accepts any non-null type (the name check dropped)
discriminator_any_type(cls, values) ==
    has_field(values, "type") /\ get_field(values, "type") # PyNone

\* the discriminator that falls back on the class default when type is absent
discriminator_default_type(cls, values) ==
    LET t == IF has_field(values, "type") /\ get_field(values, "type") # PyNone
             THEN get_field(values, "type") ELSE Default(cls, "type")
    IN cls = Format(t) \o "SearchModel"

\* BaseSearchModel.discriminator: TRUE when it returns the values,
\* FALSE when it raises ValueError
discriminator(cls, values) ==
    IF ~has_field(values, "type") \/ get_field(values, "type") = PyNone
    THEN FALSE
    ELSE LET t == get_field(values, "type")
         IN cls = Format(t) \o "SearchModel"

\* extra = "ignore": no key is reported
ExtraKeysIgnored(cls, values) == {}

\* Config.extra = "forbid": the keys of the input that are no declared field
ExtraKeys(cls, values) == DOMAIN values.m \ FieldSet(cls)

\* int(s) for the decimal strings of the integers of the model
ParseInt(s) ==
    IF \E n \in 0..MaxInt : ToString(n) = s
    THEN PyInt(CHOOSE n \in 0..MaxInt : ToString(n) = s)
    ELSE Err("int_parsing")

\* validation that turns an integer given for a string into its digits
validate_scalar_coercing(ftype, v) ==
    CASE ftype \in {"str", "Optional[str]"} ->
            IF v.k = "str" \/ (v.k = "null" /\ ftype # "str") THEN v
            ELSE IF v.k = "int" THEN PyStr(ToString(v.i))
            ELSE Err("string_type")
      [] ftype = "Optional[int]" ->
            IF v.k \in {"int", "null"} THEN v
            ELSE IF v.k = "str" THEN ParseInt(v.s)
            ELSE Err("int_type")

\* validation of a scalar field against its declared type (lax mode)
validate_scalar(ftype, v) ==
    CASE ftype = "str" ->
            IF v.k = "str" THEN v ELSE Err("string_type")
      [] ftype = "Optional[str]" ->
            IF v.k \in {"str", "null"} THEN v ELSE Err("string_type")
      [] ftype = "Optional[int]" ->
            IF v.k \in {"int", "null"} THEN v
            ELSE IF v.k = "str" THEN ParseInt(v.s)
            ELSE Err("int_type")

\* the least index of a non-empty set of indexes
Least(S) == CHOOSE i \in S : \A j \in S : i <= j

\* the paths of the error lines of the outcome `v` of validating the input
\* found at `step` (a field name or a list index); none if `v` is no error
Under(step, v) ==
    IF ~IsErr(v) THEN {}
    ELSE IF v.loc = {} THEN {<<step>>}
    ELSE {<<step>> \o path : path \in v.loc}

RECURSIVE validate_model(_, _), validate_union(_, _), validate_field(_, _, _)

\* validation against Union[...members in the order given...]: the first
\* member that accepts the value
validate_union(order, v) ==
    LET tried == [i \in DOMAIN order |-> validate_model(order[i], v)]
        ok    == {i \in DOMAIN order : ~IsErr(tried[i])}
    IN IF ok = {}
       THEN ErrAt("union", UNION {tried[i].loc : i \in DOMAIN order})
       ELSE tried[Least(ok)]

\* validation of a field that leaves out the elements of children that are
\* no nodes
validate_field_dropping(cls, field, v) ==
    LET ftype == FieldType(cls, field)
    IN CASE ftype = "SearchModel" -> validate_union(SearchModel, v)
         [] ftype = "list[SearchModel]" ->
               IF v.k # "list" THEN Err("list_type")
               ELSE LET items == [i \in DOMAIN v.l |->
                                     validate_union(SearchModel, v.l[i])]
                    IN PyList(SelectSeq(items, LAMBDA item : ~IsErr(item)))
         [] OTHER -> validate_scalar(ftype, v)

validate_field(cls, field, v) ==
    LET ftype == FieldType(cls, field)
    IN CASE ftype = "SearchModel" -> validate_union(SearchModel, v)
         [] ftype = "list[SearchModel]" ->
               IF v.k # "list" THEN Err("list_type")
               ELSE LET items == [i \in DOMAIN v.l |->
                                     validate_union(SearchModel, v.l[i])]
                    IN IF \E i \in DOMAIN items : IsErr(items[i])
                       THEN ErrAt("children",
                                  UNION {Under(ToString(i - 1), items[i])
                                         : i \in DOMAIN items})
                       ELSE PyList(items)
         [] OTHER -> validate_scalar(ftype, v)

\* cls(**values) / validation of `values` as an instance of cls
validate_model(cls, values) ==
    IF ~discriminator(cls, values) THEN Err("discriminator")
    ELSE IF values.k = "model"
         THEN IF values.cls = cls THEN values ELSE Err("model_type")
    ELSE IF values.k # "map" THEN Err("model_type")
    ELSE LET fv == [field \in FieldSet(cls) |->
                      IF field \in DOMAIN values.m
                      THEN validate_field(cls, field, values.m[field])
                      ELSE IF HasDefault(cls, field) THEN Default(cls, field)
                      ELSE Err("missing")]
             extra == ExtraKeys(cls, values)
         IN IF extra # {} \/ \E field \in FieldSet(cls) : IsErr(fv[field])
            THEN ErrAt(IF extra # {} THEN "extra_forbidden" ELSE "field",
                       {<<key>> : key \in extra}
                       \cup UNION {Under(field, fv[field]) : field \in FieldSet(cls)})
            ELSE Model(cls, fv, DOMAIN values.m \cap FieldSet(cls))

\* parse_obj_as(type_, obj) for type_ the SearchModel union or one class
parse_obj_as(type_, obj) ==
    IF type_ = "SearchModel" THEN validate_union(SearchModel, obj)
    ELSE validate_model(type_, obj)

-----------------------------------------------------------------------------
(* Serialization: model.dict(exclude_unset=True) *)

\* exclude_unset ignored: every field is dumped
AllFields(node) == DOMAIN node.f

\* the fields that dict(exclude_unset=True) keeps: model_fields_set
DumpedFields(node) == node.set

RECURSIVE dict(_)

dict(v) ==
    CASE v.k = "model" -> PyDict([field \in DumpedFields(v) |-> dict(v.f[field])])
      [] v.k = "list"  -> PyList([i \in DOMAIN v.l |-> dict(v.l[i])])
      [] OTHER         -> v

-----------------------------------------------------------------------------
(* The SQLAlchemy expression elements that render_condition() builds       *)

\* Column == value (op "eq") or Column != value (op "ne")
BinaryExpression(op, table, col, val) ==
    [k |-> "binary", op |-> op, table |-> table, col |-> col, val |-> val]
\* clauses joined by AND or by OR; `clauses` may be empty
BooleanClauseList(op, clauses) ==
    [k |-> "clauselist", op |-> op, clauses |-> clauses]
\* NOT element
UnaryExpression(element) == [k |-> "unary", op |-> "inv", element |-> element]
\* ( element )
Grouping(element) == [k |-> "grouping", element |-> element]

\* sqlalchemy.sql.operators._PRECEDENCE
Precedence(op) ==
    CASE op \in {"eq", "ne", "inv"} -> 5
      [] op = "and"                 -> 3
      [] op = "or"                  -> 2
      [] op = "_asbool"             -> 0 - 10

\* operators.is_precedent: and_ and or_ are natural self precedent
is_precedent(op, against) ==
    IF op = against /\ op \in {"and", "or"} THEN FALSE
    ELSE Precedence(op) <= Precedence(against)

\* element.self_group(against)
self_group(element, against) ==
    CASE element.k = "clauselist" ->
            IF element.clauses = <<>> THEN element
            ELSE IF is_precedent(element.op, against) THEN Grouping(element)
            ELSE element
      [] element.k \in {"binary", "unary"} ->
            IF is_precedent(element.op, against) THEN Grouping(element)
            ELSE element
      [] OTHER -> element

RECURSIVE Concat(_)
\* the concatenation of a sequence of sequences
Concat(seqs) ==
    IF seqs = <<>> THEN <<>> ELSE Head(seqs) \o Concat(Tail(seqs))

\* a construct that wraps even a single clause in a clause list
construct_always_list(op, clauses) == BooleanClauseList(op, clauses)

\* BooleanClauseList._construct: what and_(*clauses) and or_(*clauses) build
construct(op, clauses) ==
    IF clauses = <<>> THEN BooleanClauseList(op, <<>>)
    ELSE IF Len(clauses) = 1 THEN self_group(clauses[1], "_asbool")
    ELSE LET grouped == [i \in DOMAIN clauses |-> self_group(clauses[i], op)]
             flat == [i \in DOMAIN grouped |->
                        IF grouped[i].k = "clauselist" /\ grouped[i].op = op
                        THEN grouped[i].clauses ELSE <<grouped[i]>>]
         IN BooleanClauseList(op, Concat(flat))

and_(clauses) == construct("and", clauses)
or_(clauses)  == construct("or", clauses)

\* the negation left out: the condition of the child is returned as it is
not_dropped(clause) == clause

\* not_(clause): clause._negate()
not_(clause) ==
    IF clause.k = "binary"
    THEN BinaryExpression(IF clause.op = "eq" THEN "ne" ELSE "eq",
                          clause.table, clause.col, clause.val)
    ELSE UnaryExpression(self_group(clause, "inv"))

-----------------------------------------------------------------------------
(* render_condition() *)

\* cls.__name__.replace("SearchModel", ""): User, Company, Not, Or, And
model_class_name(cls) == SubSeq(cls, 1, Len(cls) - Len("SearchModel"))

\* globals()[name].__tablename__ for the entities imported at lines 12-13
TableName(name) ==
    CASE name = "User"    -> "users"
      [] name = "Company" -> "companies"

\* a leaf that compares every field the caller provided (model_fields_set)
entity_fields_set(node) ==
    LET Keep(field) == field # "type" /\ field \in node.set
    IN SelectSeq(FieldSeq(node.cls), Keep)

\* the fields an entity leaf compares: every annotated field other than
\* `type` whose value is not None, in declaration order (lines 110-111)
compared_fields(node) ==
    LET Keep(field) == field # "type" /\ node.f[field] # PyNone
    IN SelectSeq(FieldSeq(node.cls), Keep)

\* EntitySearchModel.render_condition
render_entity(node) ==
    LET table  == TableName(model_class_name(node.cls))
        fields == compared_fields(node)
        conditions == [i \in DOMAIN fields |->
                         BinaryExpression("eq", table, fields[i], node.f[fields[i]])]
    IN and_(conditions)

RECURSIVE render_condition(_)

render_condition(node) ==
    CASE node.cls \in EntityClasses -> render_entity(node)
      [] node.cls = "NotSearchModel" ->
            not_(render_condition(node.f["child"]))
      [] node.cls = "OrSearchModel" ->
            or_([i \in DOMAIN node.f["children"].l |->
                    render_condition(node.f["children"].l[i])])
      [] node.cls = "AndSearchModel" ->
            and_([i \in DOMAIN node.f["children"].l |->
                    render_condition(node.f["children"].l[i])])

-----------------------------------------------------------------------------
(* Execution of SELECT <entity> WHERE <condition> by the database          *)

RECURSIVE Blank(_), WellFormed(_), Truth(_, _)

\* the element compiles to the empty string: a clause list none of whose
\* clauses compiles to text (the compiler joins the non-empty texts)
Blank(c) ==
    c.k = "clauselist" /\ \A i \in DOMAIN c.clauses : Blank(c.clauses[i])

\* the compiled text is valid SQL: NOT and ( ) have an operand
WellFormed(c) ==
    CASE c.k = "binary"     -> TRUE
      [] c.k = "clauselist" ->
            \A i \in DOMAIN c.clauses :
                Blank(c.clauses[i]) \/ WellFormed(c.clauses[i])
      [] OTHER -> ~Blank(c.element) /\ WellFormed(c.element)

SqlNot(t) == CASE t = "true" -> "false" [] t = "false" -> "true" [] OTHER -> "null"

\* the three-valued truth of a well-formed, non-blank condition on a row
Truth(c, row) ==
    CASE c.k = "binary" ->
            IF c.val = PyNone    \* Column == None compiles to IS NULL
            THEN IF (row[c.col] = PyNone) <=> (c.op = "eq") THEN "true" ELSE "false"
            ELSE IF row[c.col] = PyNone THEN "null"
            ELSE IF (row[c.col] = c.val) <=> (c.op = "eq") THEN "true"
            ELSE "false"
      [] c.k = "clauselist" ->
            LET ts == {Truth(c.clauses[i], row) :
                         i \in {j \in DOMAIN c.clauses : ~Blank(c.clauses[j])}}
            IN IF c.op = "and"
               THEN IF "false" \in ts THEN "false"
                    ELSE IF "null" \in ts THEN "null" ELSE "true"
               ELSE IF "true" \in ts THEN "true"
                    ELSE IF "null" \in ts THEN "null" ELSE "false"
      [] c.k = "unary"    -> SqlNot(Truth(c.element, row))
      [] c.k = "grouping" -> Truth(c.element, row)

\* the rows of the users table (the users of tests/helpers/entities_helpers.py
\* and one user without a first name) and of the companies table
Rows ==
    { [table |-> "users", id |-> PyInt(1), first_name |-> PyStr("Raymond"),
       last_name |-> PyStr("Peck"), email |-> PyStr("rpeck"), company_id |-> PyInt(1)],
      [table |-> "users", id |-> PyInt(2), first_name |-> PyStr("John"),
       last_name |-> PyStr("Doe"), email |-> PyStr("jdoe2"), company_id |-> PyInt(2)],
      [table |-> "users", id |-> PyInt(3), first_name |-> PyStr("John"),
       last_name |-> PyStr("Doe"), email |-> PyStr("jdoe1"), company_id |-> PyInt(1)],
      [table |-> "users", id |-> PyInt(4), first_name |-> PyStr("John"),
       last_name |-> PyStr("Schmoe"), email |-> PyStr("schmoe"), company_id |-> PyNone],
      [table |-> "users", id |-> PyInt(5), first_name |-> PyStr("Jane"),
       last_name |-> PyStr("Doe"), email |-> PyStr("jane"), company_id |-> PyInt(2)],
      [table |-> "users", id |-> PyInt(6), first_name |-> PyNone,
       last_name |-> PyStr("Doe"), email |-> PyStr("anon"), company_id |-> PyInt(1)],
      [table |-> "companies", id |-> PyInt(1), name |-> PyStr("Munsters")],
      [table |-> "companies", id |-> PyInt(2), name |-> PyStr("Acme")],
      [table |-> "companies", id |-> PyInt(3), name |-> PyNone] }

TableRows(table) == {row \in Rows : row.table = table}

RECURSIVE Tables(_)
\* the tables whose columns a condition names
Tables(c) ==
    CASE c.k = "binary"     -> {c.table}
      [] c.k = "clauselist" -> UNION {Tables(c.clauses[i]) : i \in DOMAIN c.clauses}
      [] OTHER              -> Tables(c.element)

\* session.exec(select(entity).where(condition)).all(): a blank condition
\* adds no WHERE clause, an ill-formed one is rejected by the database
select_where(table, c) ==
    IF Blank(c) THEN [k |-> "rows", rows |-> TableRows(table)]
    ELSE IF ~WellFormed(c) THEN Err("SQLAlchemyError")
    ELSE [k |-> "rows", rows |-> {row \in TableRows(table) : Truth(c, row) = "true"}]

-----------------------------------------------------------------------------
(* Operations on trees: entities_for_search_model, entity_class_for_tree   *)
(* and assignment to a field of a node (Config.validate_assignment)        *)

\* the discriminator values of the entity classes
entity_types == <<"User", "Company">>

\* instances.extend(more), with the found entities put in front
extend_front(found, more) == more \o found

\* instances.extend(more)
extend(found, more) == found \o more

RECURSIVE extend_all(_, _, _)
\* found, extended by rs[i].l, rs[i + 1].l, ... in that order
extend_all(found, rs, i) ==
    IF i > Len(rs) THEN found
    ELSE extend_all(extend(found, rs[i].l), rs, i + 1)

\* the entities found so far are returned when a walk below raises
collect_found(own, below, kids) ==
    IF IsErr(own) THEN own
    ELSE PyList(extend(extend(IF own = Nothing THEN <<>> ELSE <<own>>,
                              IF IsErr(below) THEN <<>> ELSE below.l),
                       IF IsErr(kids) THEN <<>> ELSE kids.l))

\* the outcome of one call: the error raised by the validation of the
\* node, by the walk of child or by the walk of children, whichever comes
\* first, or else the node (when it is an entity) followed by what the
\* walks below returned
collect(own, below, kids) ==
    IF IsErr(own) THEN own
    ELSE IF IsErr(below) THEN below
    ELSE IF IsErr(kids) THEN kids
    ELSE PyList(extend(extend(IF own = Nothing THEN <<>> ELSE <<own>>,
                              below.l), kids.l))

RECURSIVE entities_for_search_model(_)
\* the list of the entity instances found in a raw payload, or the error
\* raised.  (A mapping is walked in the order of its keys; the payloads of
\* the model hold `child` or `children`, never both.)
entities_for_search_model(data) ==
    IF data.k # "map" THEN Err("ValueError")
    ELSE
    LET own == IF /\ "type" \in DOMAIN data.m
                  /\ data.m["type"].k = "str"
                  /\ \E i \in DOMAIN entity_types : entity_types[i] = data.m["type"].s
               THEN parse_obj_as("SearchModel", data)
               ELSE Nothing
        below == IF "child" \in DOMAIN data.m
                 THEN entities_for_search_model(data.m["child"])
                 ELSE PyList(<<>>)
        value == data.m["children"]
        rs == [i \in DOMAIN value.l |-> entities_for_search_model(value.l[i])]
        kids == IF "children" \notin DOMAIN data.m THEN PyList(<<>>)
                ELSE IF value.k # "list" THEN Err("TypeError")
                ELSE IF \E i \in DOMAIN rs : IsErr(rs[i])
                THEN rs[Least({i \in DOMAIN rs : IsErr(rs[i])})]
                ELSE PyList(extend_all(<<>>, rs, 1))
    IN collect(own, below, kids)

\* globals()[name] of search_models.py, for the names a type field may hold
globals(name) ==
    IF name.k = "str" /\ name.s \in {"User", "Company"}
    THEN PyStr(name.s) ELSE Err("KeyError")

RECURSIVE entity_class_for_tree(_)
\* entity_class_for_tree(tree): the entity class, or the error raised
entity_class_for_tree(tree) ==
    IF tree.cls \in EntityClasses THEN globals(tree.f["type"])
    ELSE IF tree.cls = "NotSearchModel"
    THEN entity_class_for_tree(tree.f["child"])
    ELSE IF tree.f["children"].l = <<>> THEN Err("IndexError")
    ELSE entity_class_for_tree(tree.f["children"].l[1])

\* node.field = value where validate_assignment = False: the value is stored
setattr_unvalidated(node, field, value) ==
    Model(node.cls, [node.f EXCEPT ![field] = value], node.set \cup {field})

\* node.field = value under Config.validate_assignment: the `before`
\* validator is handed the instance, then the value is validated against
\* the declared type of the field; the node with the field set, or the
\* ValidationError raised (the node is then left as it was)
setattr(node, field, value) ==
    IF ~discriminator(node.cls, node) THEN Err("discriminator")
    ELSE IF field \notin FieldSet(node.cls) THEN Err("no_such_attribute")
    ELSE LET v == validate_field(node.cls, field, value)
         IN IF IsErr(v) THEN ErrAt(v.msg, Under(field, v))
            ELSE Model(node.cls, [node.f EXCEPT ![field] = v],
                       node.set \cup {field})

-----------------------------------------------------------------------------
(* The payloads of the model *)

\* a JSON object with the given keys
Obj1(k1, v1) == PyDict(k1 :> v1)
Obj2(k1, v1, k2, v2) == PyDict(k1 :> v1 @@ k2 :> v2)
Obj3(k1, v1, k2, v2, k3, v3) == PyDict(k1 :> v1 @@ k2 :> v2 @@ k3 :> v3)

\* well-formed entity leaves
ValidLeaves ==
    { Obj1("type", PyStr("User")),
      Obj2("type", PyStr("User"), "first_name", PyStr("John")),
      Obj2("type", PyStr("User"), "company_id", PyInt(1)),
      Obj3("type", PyStr("User"), "first_name", PyStr("Jane"), "company_id", PyInt(MaxInt)),
      Obj3("type", PyStr("User"), "first_name", PyNone, "last_name", PyStr("Doe")),
      Obj2("type", PyStr("Company"), "name", PyStr("Acme")) }

\* leaves of raw payloads: well-formed ones, an already constructed
\* instance, and values that no class accepts
RawLeaves ==
    { Obj1("type", PyStr("User")),
      Obj2("type", PyStr("User"), "first_name", PyStr("John")),
      Obj3("type", PyStr("User"), "first_name", PyNone, "company_id", PyInt(1)),
      Obj2("type", PyStr("User"), "company_id", PyStr("1")),
      Obj2("type", PyStr("Company"), "name", PyStr("Acme")),
      validate_model("UserSearchModel",
                     Obj2("type", PyStr("User"), "last_name", PyStr("Doe"))),
      Obj1("first_name", PyStr("John")),
      Obj2("type", PyNone, "first_name", PyStr("John")),
      Obj2("type", PyStr("User"), "unknown_field", PyInt(1)),
      Obj1("type", PyStr("Invalid")),
      Obj2("type", PyStr("User"), "id", PyStr("not a number")),
      Obj2("type", PyStr("User"), "first_name", PyInt(1)),
      Obj2("type", PyStr("User"), "email", PyDict(<<>>)),
      Obj2("type", PyStr("Company"), "email", PyStr("a@b.c")),
      Obj1("type", PyStr("And")),
      Obj3("type", PyStr("Or"), "children", PyList(<<>>), "name", PyStr("Acme")),
      PyInt(1) }

NotNode(c)      == Obj2("type", PyStr("Not"), "child", c)
NaryNode(op, cs) == Obj2("type", PyStr(op), "children", PyList(cs))

RECURSIVE ChildSeqs(_, _)
\* the sequences of payloads of n nodes in all, where levels[i] holds the
\* payloads of exactly i nodes
ChildSeqs(levels, n) ==
    IF n = 0 THEN {<<>>}
    ELSE UNION {{<<t>> \o rest : t \in levels[first],
                                 rest \in ChildSeqs(levels, n - first)}
                : first \in 1..n}

RECURSIVE Levels(_, _)
\* <<the payloads of exactly 1 node, ..., the payloads of exactly n nodes>>
\* over the given leaves; an empty And or Or is one node
Levels(leaves, n) ==
    IF n = 1
    THEN <<leaves \cup {NaryNode(op, <<>>) : op \in {"And", "Or"}}>>
    ELSE LET levels == Levels(leaves, n - 1)
         IN Append(levels,
                {NotNode(c) : c \in levels[n - 1]}
                \cup {NaryNode(op, cs) : op \in {"And", "Or"},
                                         cs \in ChildSeqs(levels, n - 1)})

\* a place of a shape where a leaf goes
Slot == [k |-> "slot"]

\* the shapes of the payloads of at most n nodes: trees of Not, And and Or
\* nodes whose leaves are slots
Shapes(n) ==
    LET levels == Levels({Slot}, n) IN UNION {levels[i] : i \in 1..n}

RECURSIVE SlotCount(_), SlotsBefore(_, _), Fill(_, _, _)

\* the number of slots of a shape
SlotCount(shape) ==
    IF shape.k = "slot" THEN 1
    ELSE IF "child" \in DOMAIN shape.m THEN SlotCount(shape.m["child"])
    ELSE SlotsBefore(shape.m["children"].l, Len(shape.m["children"].l) + 1)

\* the number of slots of the shapes shapes[1] .. shapes[i - 1]
SlotsBefore(shapes, i) ==
    IF i = 1 THEN 0
    ELSE SlotsBefore(shapes, i - 1) + SlotCount(shapes[i - 1])

\* the payload of the given shape whose j-th slot, from the left, holds
\* leaves[offset + j]
Fill(shape, leaves, offset) ==
    IF shape.k = "slot" THEN leaves[offset + 1]
    ELSE IF "child" \in DOMAIN shape.m
    THEN NotNode(Fill(shape.m["child"], leaves, offset))
    ELSE LET cs == shape.m["children"].l
         IN NaryNode(shape.m["type"].s,
                     [i \in DOMAIN cs |->
                        Fill(cs[i], leaves, offset + SlotsBefore(cs, i))])

\* payload is a payload of at most n nodes over the given leaves
IsPayload(leaves, n) ==
    \E shape \in Shapes(n) :
        \E chosen \in [1..SlotCount(shape) -> leaves] :
            payload = Fill(shape, chosen, 0)

-----------------------------------------------------------------------------
(* The state machine *)

Fresh ==
    /\ target = "none"
    /\ model = Nothing
    /\ dumped = Nothing
    /\ reparsed = Nothing
    /\ condition = Nothing
    /\ results = Nothing
    /\ instances = Nothing
    /\ entity_class = Nothing
    /\ assigned = Nothing
    /\ assigns = 0

\* the introspection helpers were not called
NoObject ==
    /\ subject = Nothing
    /\ fetched = Nothing

\* no Markdown file was sliced
NoSlicer ==
    /\ markdown = Nothing
    /\ slicer = Nothing

\* no ephemeral transaction scope was entered
NoScope ==
    /\ database = {}
    /\ scope = Nothing

\* no node instance was built in the process
NoHeap ==
    /\ heap = <<>>
    /\ rendered = Nothing

\* no request of the REST API was made: the tables are empty
EmptyDb ==
    /\ users = {}
    /\ companies = {}
    /\ sequence = [users |-> 0, companies |-> 0]
    /\ response = Nothing
    /\ deleted = {}

\* a request with an arbitrary raw payload
Init == IsPayload(RawLeaves, MaxRawNodes) /\ Fresh /\ EmptyDb /\ NoObject /\ NoHeap /\ NoScope /\ NoSlicer /\ backend = "sqlite"

\* a tree, deserialized from a well-formed payload, whose fields are assigned
AssignInit ==
    IsPayload(ValidLeaves, MaxAssignNodes) /\ Fresh /\ EmptyDb /\ NoObject /\ NoHeap /\ NoScope /\ NoSlicer /\ backend = "sqlite"

\* a search request with a well-formed payload
SearchInit ==
    IsPayload(ValidLeaves, MaxNodes) /\ Fresh /\ EmptyDb /\ NoObject /\ NoHeap /\ NoScope /\ NoSlicer /\ backend = "sqlite"

\* parse_obj_as(SearchModel, payload)
ParseObjAs ==
    /\ model = Nothing
    /\ target' = "SearchModel"
    /\ model' = parse_obj_as("SearchModel", payload)
    /\ UNCHANGED <<payload, dumped, reparsed, condition, results>>
    /\ UNCHANGED treeVars
    /\ UNCHANGED apiVars
    /\ UNCHANGED fieldVars
    /\ UNCHANGED heapVars
    /\ UNCHANGED scopeVars
    /\ UNCHANGED slicerVars

\* cls(**payload)
Construct(cls) ==
    /\ model = Nothing
    /\ payload.k = "map"
    /\ target' = cls
    /\ model' = parse_obj_as(cls, payload)
    /\ UNCHANGED <<payload, dumped, reparsed, condition, results>>
    /\ UNCHANGED treeVars
    /\ UNCHANGED apiVars
    /\ UNCHANGED fieldVars
    /\ UNCHANGED heapVars
    /\ UNCHANGED scopeVars
    /\ UNCHANGED slicerVars

\* serialized = model.dict(exclude_unset=True)
Serialize ==
    /\ IsModel(model)
    /\ dumped = Nothing
    /\ dumped' = dict(model)
    /\ UNCHANGED <<payload, target, model, reparsed, condition, results>>
    /\ UNCHANGED treeVars
    /\ UNCHANGED apiVars
    /\ UNCHANGED fieldVars
    /\ UNCHANGED heapVars
    /\ UNCHANGED scopeVars
    /\ UNCHANGED slicerVars

\* the serialized tree deserialized again, the way the tree was
Deserialize ==
    /\ dumped # Nothing
    /\ reparsed = Nothing
    /\ reparsed' = parse_obj_as(target, dumped)
    /\ UNCHANGED <<payload, target, model, dumped, condition, results>>
    /\ UNCHANGED treeVars
    /\ UNCHANGED apiVars
    /\ UNCHANGED fieldVars
    /\ UNCHANGED heapVars
    /\ UNCHANGED scopeVars
    /\ UNCHANGED slicerVars

\* condition = query.render_condition()
RenderCondition ==
    /\ IsModel(model)
    /\ condition = Nothing
    /\ condition' = render_condition(model)
    /\ UNCHANGED <<payload, target, model, dumped, reparsed, results>>
    /\ UNCHANGED treeVars
    /\ UNCHANGED apiVars
    /\ UNCHANGED fieldVars
    /\ UNCHANGED heapVars
    /\ UNCHANGED scopeVars
    /\ UNCHANGED slicerVars

RECURSIVE order_by_id(_)
\* the rows in ascending order of id
order_by_id(rows) ==
    IF rows = {} THEN <<>>
    ELSE LET first == CHOOSE row \in rows :
                          \A other \in rows : row.id.i <= other.id.i
         IN <<first>> \o order_by_id(rows \ {first})

\* the orders in which a SELECT without ORDER BY may return the rows: the
\* order of the rows in storage, where any number of the rows with the
\* least ids may have been rewritten behind the others
storage_orders(rows) ==
    LET asc == order_by_id(rows)
        n   == Len(asc)
    IN {[i \in 1..n |-> asc[((i + r - 1) % n) + 1]] : r \in 0..(n - 1)}
       \cup {asc}

\* search_users / search_companies: select(entity).where(condition),
\* for a condition on the columns of that entity; `order` is the list
\* that .all() returns
Search(table) ==
    /\ condition # Nothing
    /\ results = Nothing
    /\ Tables(condition) \subseteq {table}
    /\ LET out == select_where(table, condition)
       IN \E order \in (IF IsErr(out) THEN {<<>>} ELSE storage_orders(out.rows)) :
            results' = [table |-> table, out |-> out, order |-> order]
    /\ UNCHANGED <<payload, target, model, dumped, reparsed, condition>>
    /\ UNCHANGED treeVars
    /\ UNCHANGED apiVars
    /\ UNCHANGED fieldVars
    /\ UNCHANGED heapVars
    /\ UNCHANGED scopeVars
    /\ UNCHANGED slicerVars

\* instances = entities_for_search_model(payload)
EntitiesForSearchModel ==
    /\ instances = Nothing
    /\ instances' = entities_for_search_model(payload)
    /\ UNCHANGED searchVars
    /\ UNCHANGED <<entity_class, assigned, assigns>>
    /\ UNCHANGED apiVars
    /\ UNCHANGED fieldVars
    /\ UNCHANGED heapVars
    /\ UNCHANGED scopeVars
    /\ UNCHANGED slicerVars

\* entity_class_for_tree(model)
EntityClassForTree ==
    /\ IsModel(model)
    /\ entity_class = Nothing
    /\ entity_class' = entity_class_for_tree(model)
    /\ UNCHANGED searchVars
    /\ UNCHANGED <<instances, assigned, assigns>>
    /\ UNCHANGED apiVars
    /\ UNCHANGED fieldVars
    /\ UNCHANGED heapVars
    /\ UNCHANGED scopeVars
    /\ UNCHANGED slicerVars

\* the values assigned to fields
AssignValues ==
    { PyInt(1), PyStr("1"), PyStr("Jane"), PyStr("Company"), PyNone,
      Obj1("type", PyStr("User")) }

\* model.field = value
Assign(field, value) ==
    /\ IsModel(model)
    /\ assigns < MaxAssigns
    /\ LET out == setattr(model, field, value)
       IN /\ assigned' = [field |-> field, value |-> value,
                          before |-> model, out |-> out]
          /\ model' = IF IsErr(out) THEN model ELSE out
    /\ assigns' = assigns + 1
    /\ UNCHANGED <<payload, target, dumped, reparsed, condition, results>>
    /\ UNCHANGED <<instances, entity_class>>
    /\ UNCHANGED apiVars
    /\ UNCHANGED fieldVars
    /\ UNCHANGED heapVars
    /\ UNCHANGED scopeVars
    /\ UNCHANGED slicerVars

Next ==
    \/ ParseObjAs
    \/ \E cls \in Classes : Construct(cls)
    \/ Serialize
    \/ Deserialize

Spec == Init /\ [][Next]_vars

SearchNext ==
    \/ ParseObjAs
    \/ RenderCondition
    \/ \E table \in {"users", "companies"} : Search(table)

SearchSpec == SearchInit /\ [][SearchNext]_vars

\* the operations that walk a raw payload or a deserialized tree
TreeNext ==
    \/ ParseObjAs
    \/ EntitiesForSearchModel
    \/ EntityClassForTree

TreeSpec == Init /\ [][TreeNext]_vars

\* a mapping with the given key added
With(v, key, value) == PyDict(v.m @@ key :> value)

\* mappings tagged as an entity that also hold child or children, beside
\* the well-formed leaves
MixedLeaves ==
    ValidLeaves \cup
    { With(Obj1("type", PyStr("User")), "child",
           Obj2("type", PyStr("User"), "first_name", PyStr("John"))),
      With(Obj2("type", PyStr("User"), "first_name", PyStr("Jane")), "children",
           PyList(<<Obj2("type", PyStr("Company"), "name", PyStr("Acme"))>>)),
      With(Obj1("type", PyStr("Company")), "children", PyList(<<>>)),
      With(Obj1("type", PyStr("User")), "child", PyInt(1)) }

MixedInit ==
    /\ IsPayload(MixedLeaves, MaxRawNodes)
    /\ Fresh
    /\ EmptyDb
    /\ NoObject
    /\ NoHeap
    /\ NoScope
    /\ NoSlicer
    /\ backend = "sqlite"

\* the walks of payloads in which an entity mapping may hold child or children
MixedSpec == MixedInit /\ [][TreeNext]_vars

\* the fields that are assigned to: the declared ones and an undeclared one
AssignFields == UNION {FieldSet(cls) : cls \in Classes} \cup {"unknown_field"}

AssignNext ==
    \/ ParseObjAs
    \/ \E field \in AssignFields, value \in AssignValues : Assign(field, value)

AssignSpec == AssignInit /\ [][AssignNext]_vars

-----------------------------------------------------------------------------
(* The CRUD endpoints of rest_api/rest.py over the users and companies      *)
(* tables.  A request body is a function from the names of the fields it   *)
(* provides to their values; a row is a record of column values.           *)

\* the fields of UserBase, and those of UserUpdate, in declaration order
UserBaseFields == <<"first_name", "last_name", "email", "company_id">>
UserUpdateFields == UserBaseFields \o <<"password">>
\* the fields of CompanyBase, which are the columns of companies besides id
CompanyBaseFields == <<"name", "address">>

\* the elements of a sequence
Range(seq) == {seq[i] : i \in DOMAIN seq}

\* the value a model holds for a field: the one provided, else the default None
FieldOr(body, field) == IF field \in DOMAIN body THEN body[field] ELSE PyNone

\* hasher.hash(password)
hash(password) == PyStr("$argon2id$" \o password.s)

\* parse_obj_as(EmailStr, email) succeeds: a string with an @ that has text
\* on both sides
validate_email(email) ==
    /\ email.k = "str"
    /\ \E i \in 2..(Len(email.s) - 1) : SubSeq(email.s, i, i) = "@"

\* a row of a table, as opposed to None or an error
IsRow(x) == "id" \in DOMAIN x

\* session.get(entity, id): the row, or None
session_get(rows, id) ==
    IF \E row \in rows : row.id = PyInt(id)
    THEN CHOOSE row \in rows : row.id = PyInt(id)
    ELSE PyNone

\* the greatest of a set of natural numbers, 0 if there is none
Max(S) == IF S = {} THEN 0 ELSE CHOOSE n \in S : \A m \in S : m <= n

\* the id the database gives to a new row: SQLite takes the successor of
\* the greatest id of the table, PostgreSQL the next value of the sequence
new_id(table, rows) ==
    IF backend = "sqlite" THEN Max({row.id.i : row \in rows}) + 1
    ELSE sequence[table] + 1

\* the id sequence after an INSERT was attempted (a sequence is not rolled back)
drawn(table) ==
    IF backend = "sqlite" THEN sequence
    ELSE [sequence EXCEPT ![table] = @ + 1]

\* a table without UniqueConstraint("email")
email_not_unique(us) == TRUE

\* UniqueConstraint("email") of the users table
email_unique(us) ==
    \A u1, u2 \in us : u1.email = u2.email => u1 = u2

\* UniqueConstraint("name") of the companies table; NULLs are distinct
name_unique(cs) ==
    \A c1, c2 \in cs : (c1.name = c2.name /\ c1.name # PyNone) => c1 = c2

\* foreign_key="companies.id", which SQLite does not enforce unless asked to
foreign_key_holds(us, cs) ==
    backend = "postgresql" =>
        \A u \in us : u.company_id = PyNone \/ \E c \in cs : c.id = u.company_id

\* session.commit() succeeds on the tables us and cs: users.email is
\* declared `str` (NOT NULL) and the constraints of the tables hold
commit_ok(us, cs) ==
    /\ \A u \in us : u.email # PyNone
    /\ email_unique(us)
    /\ name_unique(cs)
    /\ foreign_key_holds(us, cs)

\* the response, and the deleted ids, after a request that did not create or
\* delete a row
Respond(op, table, status, detail) ==
    /\ response' = [op |-> op, table |-> table, status |-> status, detail |-> detail]
    /\ UNCHANGED deleted

\* the tables are left as they were
Rollback == UNCHANGED <<users, companies>>

\* the bodies of POST /v1/users
UserCreateBodies ==
    { [email |-> PyStr("a@x.io"), password |-> PyStr("pw1"), first_name |-> PyStr("John")],
      [email |-> PyStr("b@x.io"), password |-> PyStr("pw1"), company_id |-> PyInt(1)],
      [email |-> PyStr("nobody"), password |-> PyStr("pw1"), company_id |-> PyInt(1)],
      [email |-> PyStr("b@x.io"), company_id |-> PyInt(1)] }

\* the bodies of PATCH and PUT /v1/users/{id}
UserUpdateBodies ==
    { [first_name |-> PyNone],
      [email |-> PyStr("a@x.io")],
      [email |-> PyStr("b@x.io"), company_id |-> PyInt(1)],
      [email |-> PyStr("nobody")],
      [password |-> PyStr("pw2")],
      [password |-> PyNone, email |-> PyStr("b@x.io")] }

\* the bodies of POST /v1/companies
CompanyCreateBodies ==
    { [name |-> PyStr("Acme")],
      [address |-> PyNone] }

\* the bodies of PATCH and PUT /v1/companies/{id}
CompanyUpdateBodies ==
    { [name |-> PyStr("Acme")] }

\* a check that takes every company id to name a stored company
company_assumed(company_id) == TRUE

\* session.query(exists().where(Company.id == int(user.company_id))).scalar()
company_exists(company_id) == \E c \in companies : c.id = company_id

\* POST /v1/users
create_user(body) ==
    LET id == new_id("users", users)
        db_user == [id |-> PyInt(id),
                    first_name |-> FieldOr(body, "first_name"),
                    last_name |-> FieldOr(body, "last_name"),
                    email |-> FieldOr(body, "email"),
                    company_id |-> FieldOr(body, "company_id"),
                    hashed_password |-> hash(body["password"])]
    IN /\ IF "password" \notin DOMAIN body \/ body["password"].k # "str"
          THEN /\ Respond("POST", "users", 422, "Field required")
               /\ Rollback
               /\ UNCHANGED sequence
          ELSE IF ~validate_email(FieldOr(body, "email"))
          THEN /\ Respond("POST", "users", 403, "User CREATE failed: email failed validation")
               /\ Rollback
               /\ UNCHANGED sequence
          ELSE IF /\ FieldOr(body, "company_id") # PyNone
                  /\ ~company_exists(body["company_id"])
          THEN /\ Respond("POST", "users", 404, "Company not found for User")
               /\ Rollback
               /\ UNCHANGED sequence
          ELSE IF ~commit_ok(users \cup {db_user}, companies)
          THEN /\ id <= MaxId
               /\ Respond("POST", "users", 409,
                          "User CREATE failed: a user with email already exists")
               /\ Rollback
               /\ sequence' = drawn("users")
          ELSE /\ id <= MaxId
               /\ users' = users \cup {db_user}
               /\ response' = [op |-> "POST", table |-> "users",
                               status |-> 201, detail |-> ""]
               /\ deleted' = {d \in deleted : d[1] # "users"}
               /\ sequence' = drawn("users")
               /\ UNCHANGED companies
       /\ UNCHANGED backend

\* GET /v1/users/{id}
get_user_by_id(id) ==
    /\ IF session_get(users, id) = PyNone
       THEN Respond("GET", "users", 404, "User not found")
       ELSE Respond("GET", "users", 200, "")
    /\ Rollback
    /\ UNCHANGED <<backend, sequence>>

\* update_data of process_user_update: the fields to set, in order
update_data(body, partial) ==
    LET dumped_fields == IF partial
                         THEN SelectSeq(UserUpdateFields, LAMBDA f : f \in DOMAIN body)
                         ELSE UserUpdateFields
        with_password == "password" \in Range(dumped_fields)
                         /\ FieldOr(body, "password") # PyNone
        keys == IF with_password THEN dumped_fields \o <<"hashed_password">>
                ELSE SelectSeq(dumped_fields, LAMBDA f : f # "password")
    IN [keys |-> keys,
        values |-> [f \in Range(keys) |->
                      IF f = "hashed_password" THEN hash(body["password"])
                      ELSE FieldOr(body, f)]]

\* the loop `for key, value in update_data.items(): setattr(db_user, key,
\* value)`: the row with the values set, or the error that setattr raises
\* for a key that is no field of User
set_attributes(db_user, data) ==
    IF \E key \in Range(data.keys) : key \notin DOMAIN db_user
    THEN Err("no_such_attribute")
    ELSE [col \in DOMAIN db_user |->
            IF col \in Range(data.keys) THEN data.values[col] ELSE db_user[col]]

\* process_user_update: PATCH (partial) and PUT /v1/users/{id}
process_user_update(id, body, partial) ==
    LET op == IF partial THEN "PATCH" ELSE "PUT"
        db_user == session_get(users, id)
        changed == set_attributes(db_user, update_data(body, partial))
    IN /\ IF db_user = PyNone
          THEN Respond(op, "users", 404, "User not found") /\ Rollback
          ELSE IF FieldOr(body, "email") # PyNone /\ ~validate_email(body["email"])
          THEN /\ Respond(op, "users", 403, "User CREATE failed: email failed validation")
               /\ Rollback
          ELSE IF ~IsRow(changed)
          THEN Respond(op, "users", 500, "Internal Server Error") /\ Rollback
          ELSE IF ~commit_ok((users \ {db_user}) \cup {changed}, companies)
          THEN Respond(op, "users", 500, "Exception while updating user id") /\ Rollback
          ELSE /\ users' = (users \ {db_user}) \cup {changed}
               /\ Respond(op, "users", 200, "")
               /\ UNCHANGED companies
       /\ UNCHANGED <<backend, sequence>>

\* a DELETE /v1/users/{id} that answers 204 whether the user exists or not
delete_user_blindly(id) ==
    /\ users' = {u \in users : u.id # PyInt(id)}
    /\ response' = [op |-> "DELETE", table |-> "users", status |-> 204, detail |-> ""]
    /\ deleted' = deleted \cup {<<"users", id>>}
    /\ UNCHANGED <<companies, backend, sequence>>

\* DELETE /v1/users/{id}
delete_user(id) ==
    LET user == session_get(users, id)
    IN /\ IF user = PyNone
          THEN Respond("DELETE", "users", 404, "User not found") /\ Rollback
          ELSE IF ~commit_ok(users \ {user}, companies)
          THEN Respond("DELETE", "users", 500, "Exception while DELETing User") /\ Rollback
          ELSE /\ users' = users \ {user}
               /\ response' = [op |-> "DELETE", table |-> "users",
                               status |-> 204, detail |-> ""]
               /\ deleted' = deleted \cup {<<"users", id>>}
               /\ UNCHANGED companies
       /\ UNCHANGED <<backend, sequence>>

\* POST /v1/companies
create_company(body) ==
    LET id == new_id("companies", companies)
        db_company == [id |-> PyInt(id),
                       name |-> FieldOr(body, "name"),
                       address |-> FieldOr(body, "address")]
    IN /\ IF FieldOr(body, "name").k # "str"
          THEN /\ Respond("POST", "companies", 422, "Field required")
               /\ Rollback
               /\ UNCHANGED sequence
          ELSE IF ~commit_ok(users, companies \cup {db_company})
          THEN /\ id <= MaxId
               /\ Respond("POST", "companies", 409,
                          "Company CREATE failed: a company with name already exists")
               /\ Rollback
               /\ sequence' = drawn("companies")
          ELSE /\ id <= MaxId
               /\ companies' = companies \cup {db_company}
               /\ response' = [op |-> "POST", table |-> "companies",
                               status |-> 201, detail |-> ""]
               /\ deleted' = {d \in deleted : d[1] # "companies"}
               /\ sequence' = drawn("companies")
               /\ UNCHANGED users
       /\ UNCHANGED backend

\* GET /v1/companies/{id}
get_company_by_id(id) ==
    /\ IF session_get(companies, id) = PyNone
       THEN Respond("GET", "companies", 404, "Company not found")
       ELSE Respond("GET", "companies", 200, "")
    /\ Rollback
    /\ UNCHANGED <<backend, sequence>>

\* process_company_update: PATCH (partial) and PUT /v1/companies/{id}
process_company_update(id, body, partial) ==
    LET op == IF partial THEN "PATCH" ELSE "PUT"
        db_company == session_get(companies, id)
        changed == [col \in DOMAIN db_company |->
                      IF col \in Range(CompanyBaseFields)
                         /\ (~partial \/ col \in DOMAIN body)
                      THEN FieldOr(body, col) ELSE db_company[col]]
    IN /\ IF db_company = PyNone
          THEN Respond(op, "companies", 404, "Company not found") /\ Rollback
          ELSE IF ~commit_ok(users, (companies \ {db_company}) \cup {changed})
          THEN /\ Respond(op, "companies", 500, "Exception while updating company id")
               /\ Rollback
          ELSE /\ companies' = (companies \ {db_company}) \cup {changed}
               /\ Respond(op, "companies", 200, "")
               /\ UNCHANGED users
       /\ UNCHANGED <<backend, sequence>>

\* DELETE /v1/companies/{id}
delete_company(id) ==
    LET company == session_get(companies, id)
    IN /\ IF company = PyNone
          THEN Respond("DELETE", "companies", 404, "Company not found") /\ Rollback
          ELSE IF ~commit_ok(users, companies \ {company})
          THEN /\ Respond("DELETE", "companies", 500, "Exception while DELETing Company")
               /\ Rollback
          ELSE /\ companies' = companies \ {company}
               /\ response' = [op |-> "DELETE", table |-> "companies",
                               status |-> 204, detail |-> ""]
               /\ deleted' = deleted \cup {<<"companies", id>>}
               /\ UNCHANGED users
       /\ UNCHANGED <<backend, sequence>>

\* the server starts on an empty database, SQLite unless DATABASE_URL names
\* another one
ApiInit ==
    /\ payload = Nothing
    /\ Fresh
    /\ EmptyDb
    /\ NoObject
    /\ NoHeap
    /\ NoScope
    /\ NoSlicer
    /\ backend \in {"sqlite", "postgresql"}

\* the ids that requests name
Ids == 1..MaxId

CreateUser ==
    /\ \E body \in UserCreateBodies : create_user(body)
    /\ UNCHANGED <<searchVars, treeVars, fieldVars, heapVars, scopeVars, slicerVars>>

GetUserById ==
    /\ \E id \in Ids : get_user_by_id(id)
    /\ UNCHANGED <<searchVars, treeVars, fieldVars, heapVars, scopeVars, slicerVars>>

UpdateUser ==
    /\ \E id \in Ids, body \in UserUpdateBodies : process_user_update(id, body, TRUE)
    /\ UNCHANGED <<searchVars, treeVars, fieldVars, heapVars, scopeVars, slicerVars>>

ReplaceUser ==
    /\ \E id \in Ids, body \in UserUpdateBodies : process_user_update(id, body, FALSE)
    /\ UNCHANGED <<searchVars, treeVars, fieldVars, heapVars, scopeVars, slicerVars>>

DeleteUser ==
    /\ \E id \in Ids : delete_user(id)
    /\ UNCHANGED <<searchVars, treeVars, fieldVars, heapVars, scopeVars, slicerVars>>

CreateCompany ==
    /\ \E body \in CompanyCreateBodies : create_company(body)
    /\ UNCHANGED <<searchVars, treeVars, fieldVars, heapVars, scopeVars, slicerVars>>

GetCompanyById ==
    /\ \E id \in Ids : get_company_by_id(id)
    /\ UNCHANGED <<searchVars, treeVars, fieldVars, heapVars, scopeVars, slicerVars>>

UpdateCompany ==
    /\ \E id \in Ids, body \in CompanyUpdateBodies : process_company_update(id, body, TRUE)
    /\ UNCHANGED <<searchVars, treeVars, fieldVars, heapVars, scopeVars, slicerVars>>

ReplaceCompany ==
    /\ \E id \in Ids, body \in CompanyUpdateBodies : process_company_update(id, body, FALSE)
    /\ UNCHANGED <<searchVars, treeVars, fieldVars, heapVars, scopeVars, slicerVars>>

DeleteCompany ==
    /\ \E id \in Ids : delete_company(id)
    /\ UNCHANGED <<searchVars, treeVars, fieldVars, heapVars, scopeVars, slicerVars>>

ApiNext ==
    \/ CreateUser
    \/ GetUserById
    \/ UpdateUser
    \/ ReplaceUser
    \/ DeleteUser
    \/ CreateCompany
    \/ GetCompanyById
    \/ UpdateCompany
    \/ ReplaceCompany
    \/ DeleteCompany

ApiSpec == ApiInit /\ [][ApiNext]_vars

-----------------------------------------------------------------------------
(* The introspection helpers applied to mappings and to records *)

\* the names of the fields that values hold at first, and a name that none
\* holds until it is set
HeldNames == {"type", "id", "email"}
FieldNames == HeldNames \cup {"name"}
\* the values that fields hold
FieldValues == {PyNone, PyInt(1), PyStr("User")}

\* the ways of holding some of the names
Holdings == UNION {[names -> FieldValues] : names \in SUBSET HeldNames}

\* the values handed to the helpers: a dict, or an object with attributes
FieldObjects ==
    {PyDict(m) : m \in Holdings} \cup {Model("object", f, DOMAIN f) : f \in Holdings}

FieldInit ==
    /\ payload = Nothing
    /\ Fresh
    /\ EmptyDb
    /\ backend = "sqlite"
    /\ subject \in FieldObjects
    /\ fetched = Nothing
    /\ NoHeap
    /\ NoScope
    /\ NoSlicer

HasField(field) ==
    /\ fetched' = [op |-> "has_field", field |-> field, before |-> subject,
                   has |-> has_field(subject, field)]
    /\ UNCHANGED <<subject, searchVars, treeVars, apiVars, heapVars, scopeVars, slicerVars>>

GetField(field) ==
    /\ fetched' = [op |-> "get_field", field |-> field, before |-> subject,
                   has |-> has_field(subject, field), out |-> get_field(subject, field)]
    /\ UNCHANGED <<subject, searchVars, treeVars, apiVars, heapVars, scopeVars, slicerVars>>

SetField(field, value) ==
    LET done == set_field(subject, field, value)
    IN /\ subject' = done.obj
       /\ fetched' = [op |-> "set_field", field |-> field, before |-> subject,
                      value |-> value, out |-> done.old]
       /\ UNCHANGED <<searchVars, treeVars, apiVars, heapVars, scopeVars, slicerVars>>

FieldNext ==
    \/ \E field \in FieldNames : HasField(field)
    \/ \E field \in FieldNames : GetField(field)
    \/ \E field \in FieldNames, value \in FieldValues : SetField(field, value)

FieldSpec == FieldInit /\ [][FieldNext]_vars

-----------------------------------------------------------------------------
(* Node instances with their identity: a node of `heap` is named by its    *)
(* index, `kids` holds the indexes of the instances that its `child` or     *)
(* `children` field refers to, and `built` what it was constructed with.    *)

\* a node instance as its constructor leaves it
Instance(cls, first_name, kids) ==
    [cls |-> cls, first_name |-> first_name, kids |-> kids,
     built |-> [first_name |-> first_name, kids |-> kids]]

\* the indexes of the instances built so far
Built == DOMAIN heap

\* the lists of at most two instances that a `children` field is given
ChildLists == {<<>>} \cup {<<c>> : c \in Built} \cup (Built \X Built)

\* the first name that leaves are built with, and the one assigned later
BuiltName == PyStr("John")
AssignedName == PyStr("Jane")

HeapInit ==
    /\ payload = Nothing
    /\ Fresh
    /\ EmptyDb
    /\ NoObject
    /\ NoHeap
    /\ NoScope
    /\ NoSlicer
    /\ backend = "sqlite"

\* UserSearchModel(type="User", first_name="John")
ConstructLeaf ==
    /\ Len(heap) < MaxObjects
    /\ heap' = Append(heap, Instance("UserSearchModel", BuiltName, <<>>))
    /\ UNCHANGED <<rendered, searchVars, treeVars, apiVars, fieldVars, scopeVars, slicerVars>>

\* NotSearchModel(type="Not", child=instance): the instance passes the
\* validation of the field and is stored as it is, not copied
ConstructNot(child) ==
    /\ Len(heap) < MaxObjects
    /\ heap' = Append(heap, Instance("NotSearchModel", PyNone, <<child>>))
    /\ UNCHANGED <<rendered, searchVars, treeVars, apiVars, fieldVars, scopeVars, slicerVars>>

\* AndSearchModel(type="And", children=[instances])
ConstructAnd(children) ==
    /\ Len(heap) < MaxObjects
    /\ heap' = Append(heap, Instance("AndSearchModel", PyNone, children))
    /\ UNCHANGED <<rendered, searchVars, treeVars, apiVars, fieldVars, scopeVars, slicerVars>>

\* parse_obj_as(SearchModel, {"type": "Not", "child": {"type": "User"}}):
\* every mapping becomes an instance of its own, the child first
DeserializeNot ==
    /\ Len(heap) + 2 <= MaxObjects
    /\ heap' = heap \o <<Instance("UserSearchModel", PyNone, <<>>),
                          Instance("NotSearchModel", PyNone, <<Len(heap) + 1>>)>>
    /\ UNCHANGED <<rendered, searchVars, treeVars, apiVars, fieldVars, scopeVars, slicerVars>>

\* node.first_name = "Jane" on a leaf: validate_assignment accepts a string
AssignFirstName(node) ==
    /\ heap[node].cls = "UserSearchModel"
    /\ heap' = [heap EXCEPT ![node].first_name = AssignedName]
    /\ UNCHANGED <<rendered, searchVars, treeVars, apiVars, fieldVars, scopeVars, slicerVars>>

\* node.child = instance on a Not: validate_assignment accepts an instance
\* of a member of SearchModel and stores it as it is
AssignChild(node, child) ==
    /\ heap[node].cls = "NotSearchModel"
    /\ heap' = [heap EXCEPT ![node].kids = <<child>>]
    /\ UNCHANGED <<rendered, searchVars, treeVars, apiVars, fieldVars, scopeVars, slicerVars>>

RECURSIVE render_visits(_, _, _)
RECURSIVE render_children(_, _, _, _)
\* the instances whose render_condition() is called by nodes[node]
\* .render_condition(), in the order of the calls, or RecursionError when
\* the calls nest deeper than `frames`
render_visits(nodes, node, frames) ==
    IF frames = 0 THEN Err("RecursionError")
    ELSE LET below == render_children(nodes, nodes[node].kids, 1, frames - 1)
         IN IF IsErr(below) THEN below ELSE PyList(<<node>> \o below.l)

\* the calls made for the children from the i-th on, in order
render_children(nodes, kids, i, frames) ==
    IF i > Len(kids) THEN PyList(<<>>)
    ELSE LET first == render_visits(nodes, kids[i], frames)
         IN IF IsErr(first) THEN first
            ELSE LET rest == render_children(nodes, kids, i + 1, frames)
                 IN IF IsErr(rest) THEN rest ELSE PyList(first.l \o rest.l)

\* heap[node].render_condition(): a chain of calls longer than the number
\* of instances goes round a cycle and ends in RecursionError
RenderInstance(node) ==
    /\ rendered' = [node |-> node, calls |-> render_visits(heap, node, Len(heap))]
    /\ UNCHANGED <<heap, searchVars, treeVars, apiVars, fieldVars, scopeVars, slicerVars>>

HeapNext ==
    \/ ConstructLeaf
    \/ \E child \in Built : ConstructNot(child)
    \/ \E children \in ChildLists : ConstructAnd(children)
    \/ DeserializeNot
    \/ \E node \in Built : AssignFirstName(node)
    \/ \E node, child \in Built : AssignChild(node, child)
    \/ \E node \in Built : RenderInstance(node)

HeapSpec == HeapInit /\ [][HeapNext]_vars

-----------------------------------------------------------------------------
(* db/common.py: ephemeral_transaction_scope, the session that the tests   *)
(* of the search models add their entities to                              *)

\* the entities that are added, named by the column that is unique
TestEntities == {"john@x.io", "jane@x.io", "joe@x.io"}

\* Session(_engine) followed by session.begin_nested(): the session is
\* open, nothing is pending or written, and the savepoint is active
begin_nested(rows) ==
    [at |-> "inside", entry |-> rows, pending |-> {}, flushed |-> {},
     transaction |-> "active", session |-> "open", committed |-> FALSE,
     raised |-> FALSE, seen |-> {}]

\* session.add(entity), as create_test_entities calls it
add(s, entity) == [s EXCEPT !.pending = @ \cup {entity}]

\* a flush in a session that commits every statement at once
flush_autocommit(rows, s) ==
    IF s.pending \cap (rows \cup s.flushed) # {}
    THEN [database |-> rows,
          scope |-> [s EXCEPT !.pending = {}, !.flushed = {},
                              !.transaction = "deactive", !.raised = TRUE]]
    ELSE [database |-> rows \cup s.pending,
          scope |-> [s EXCEPT !.pending = {}]]

\* session.flush(): the pending entities are inserted inside the savepoint;
\* an insert that breaks the unique constraint raises IntegrityError, and
\* the session rolls the savepoint back and leaves it inactive
flush(rows, s) ==
    IF s.pending \cap (rows \cup s.flushed) # {}
    THEN [database |-> rows,
          scope |-> [s EXCEPT !.pending = {}, !.flushed = {},
                              !.transaction = "deactive", !.raised = TRUE]]
    ELSE [database |-> rows,
          scope |-> [s EXCEPT !.pending = {}, !.flushed = @ \cup s.pending]]

\* session.commit(): a flush, then the commit of the outermost transaction,
\* which ends the savepoint with it
commit(rows, s) ==
    LET f == flush(rows, s)
    IN IF f.scope.raised THEN f
       ELSE [database |-> rows \cup f.scope.flushed,
             scope |-> [f.scope EXCEPT !.flushed = {}, !.transaction = "closed",
                                       !.committed = TRUE]]

\* the finally block, lines 73-75: transaction.rollback() undoes what was
\* written since the savepoint and session.close() rolls back and releases
\* the connection; rollback() of a transaction that has ended raises, and
\* close() is then not reached
exit(s) ==
    IF s.transaction = "closed"
    THEN [s EXCEPT !.at = "exited", !.raised = TRUE]
    ELSE [s EXCEPT !.at = "exited", !.pending = {}, !.flushed = {},
                   !.transaction = "closed", !.session = "closed"]

ScopeInit ==
    /\ database \in SUBSET TestEntities
    /\ scope = Nothing
    /\ payload = Nothing
    /\ Fresh
    /\ EmptyDb
    /\ NoObject
    /\ NoHeap
    /\ NoSlicer
    /\ backend = "sqlite"

Inside == scope # Nothing /\ scope.at = "inside" /\ ~scope.raised

\* with ephemeral_transaction_scope() as session:
Enter ==
    /\ scope = Nothing
    /\ scope' = begin_nested(database)
    /\ UNCHANGED <<searchVars, treeVars, apiVars, fieldVars, heapVars, database, slicerVars>>

\* create_test_entities(session, [entity])
Add(entity) ==
    /\ Inside
    /\ scope' = add(scope, entity)
    /\ UNCHANGED <<searchVars, treeVars, apiVars, fieldVars, heapVars, database, slicerVars>>

\* session.flush()
Flush ==
    /\ Inside
    /\ scope.pending # {}
    /\ database' = flush(database, scope).database
    /\ scope' = flush(database, scope).scope
    /\ UNCHANGED <<searchVars, treeVars, apiVars, fieldVars, heapVars, slicerVars>>

\* session.query(...).all(): the session flushes first (autoflush), then
\* reads the committed rows and those written in its transaction
Query ==
    /\ Inside
    /\ LET f == flush(database, scope)
       IN /\ database' = f.database
          /\ scope' = IF f.scope.raised THEN f.scope
                      ELSE [f.scope EXCEPT !.seen = f.database \cup f.scope.flushed]
    /\ UNCHANGED <<searchVars, treeVars, apiVars, fieldVars, heapVars, slicerVars>>

\* session.commit()
Commit ==
    /\ Inside
    /\ ~scope.committed
    /\ database' = commit(database, scope).database
    /\ scope' = commit(database, scope).scope
    /\ UNCHANGED <<searchVars, treeVars, apiVars, fieldVars, heapVars, slicerVars>>

\* the body of the with statement raises (a failed assertion of a test)
Raise ==
    /\ Inside
    /\ scope' = [scope EXCEPT !.raised = TRUE]
    /\ UNCHANGED <<searchVars, treeVars, apiVars, fieldVars, heapVars, database, slicerVars>>

\* the scope is left, at the end of the body or by the exception raised
Exit ==
    /\ scope # Nothing
    /\ scope.at = "inside"
    /\ scope' = exit(scope)
    /\ UNCHANGED <<searchVars, treeVars, apiVars, fieldVars, heapVars, database, slicerVars>>

ScopeNext ==
    \/ Enter
    \/ \E entity \in TestEntities : Add(entity)
    \/ Flush
    \/ Query
    \/ Commit
    \/ Raise
    \/ Exit

ScopeSpec == ScopeInit /\ [][ScopeNext]_vars

-----------------------------------------------------------------------------
(* helpers/api_docs_helpers.py: MarkdownSlicer                             *)

\* the longest file that is sliced, in lines
MaxLines == 3

\* the backquote of Markdown, written as an apostrophe: a string of this
\* notation cannot hold a backquote
backquote == "'"

endpoint_pfx  == "## Endpoint: "
endpoints_pfx == "# Endpoints: "

\* line.startswith(pfx)
startswith(line, pfx) ==
    Len(line) >= Len(pfx) /\ SubSeq(line, 1, Len(pfx)) = pfx

RECURSIVE replace(_, _, _)
\* str.replace(old, new) for a single character `old`
replace(str, old, new) ==
    IF str = "" THEN ""
    ELSE (IF SubSeq(str, 1, 1) = old THEN new ELSE SubSeq(str, 1, 1))
         \o replace(SubSeq(str, 2, Len(str)), old, new)

RECURSIVE rstrip(_)
\* str.rstrip(): the string without the whitespace at its end
rstrip(str) ==
    IF str # "" /\ SubSeq(str, Len(str), Len(str)) \in {" ", "\n", "\t"}
    THEN rstrip(SubSeq(str, 1, Len(str) - 1))
    ELSE str

\* line[len(pfx):].replace(backquote, "").rstrip()
header_name(line, pfx) ==
    rstrip(replace(SubSeq(line, Len(pfx) + 1, Len(line)), backquote, ""))

\* docs[name] = line where the name is new, docs[name] += line otherwise
appended(docs, name, line) ==
    IF name \in DOMAIN docs THEN [docs EXCEPT ![name] = @ \o line]
    ELSE docs @@ (name :> line)

\* the loop body at a '# Endpoints: ' line, lines 59-65
tag_header(st, line) ==
    LET name == header_name(line, endpoints_pfx)
    IN [st EXCEPT !.in_system_description = FALSE,
                  !.current_tag = PyStr(name),
                  !.current_endpoint = PyNone,
                  !.tag_docs = appended(@, name, line)]

\* the endpoint branch with the current tag left as it is
endpoint_header_keeping_tag(st, line) ==
    LET name == header_name(line, endpoint_pfx)
    IN [st EXCEPT !.in_system_description = FALSE,
                  !.current_endpoint = PyStr(name),
                  !.endpoint_docs = appended(@, name, line)]

\* the loop body at a '## Endpoint: ' line, lines 67-73
endpoint_header(st, line) ==
    LET name == header_name(line, endpoint_pfx)
    IN [st EXCEPT !.in_system_description = FALSE,
                  !.current_endpoint = PyStr(name),
                  !.current_tag = PyNone,
                  !.endpoint_docs = appended(@, name, line)]

\* the body of the loop over the lines, lines 58-79
slice_line(st, line) ==
    IF startswith(line, endpoints_pfx) THEN tag_header(st, line)
    ELSE IF startswith(line, endpoint_pfx) THEN endpoint_header(st, line)
    ELSE IF st.in_system_description
    THEN [st EXCEPT !.system_description = @ \o line]
    ELSE IF st.current_tag # PyNone
    THEN [st EXCEPT !.tag_docs[st.current_tag.s] = @ \o line]
    ELSE IF st.current_endpoint # PyNone
    THEN [st EXCEPT !.endpoint_docs[st.current_endpoint.s] = @ \o line]
    ELSE st

RECURSIVE slice_lines(_, _, _)
\* the loop over lines[i], lines[i + 1], ...
slice_lines(st, lines, i) ==
    IF i > Len(lines) THEN st
    ELSE slice_lines(slice_line(st, lines[i]), lines, i + 1)

\* MarkdownSlicer.__init__ and __parse: the slicer, or the error raised
\* when there is no file
parse(file) ==
    IF ~file.exists THEN Err("ValueError")
    ELSE LET st == slice_lines([in_system_description |-> TRUE,
                                current_tag |-> PyNone,
                                current_endpoint |-> PyNone,
                                system_description |-> "",
                                tag_docs |-> <<>>,
                                endpoint_docs |-> <<>>],
                               file.lines, 1)
         IN [k |-> "slicer",
             system_description |-> st.system_description,
             tag_docs |-> st.tag_docs,
             endpoint_docs |-> st.endpoint_docs]

\* the lines of the files: text, headers of tags and of endpoints with and
\* without backquotes, and lines that only look like headers
MarkdownLines ==
    { "About the API\n",
      "# Endpoints: Users\n",
      "# Endpoints: 'Users' \n",
      "## Endpoint: 'GET /v1/users'\n",
      "## Endpoint: Users\n",
      "### Notes\n",
      "# Endpoints:\n" }

RECURSIVE Files(_)
\* the sequences of at most n lines
Files(n) ==
    IF n = 0 THEN {<<>>}
    ELSE LET shorter == Files(n - 1)
         IN shorter \cup {Append(f, line) : f \in shorter, line \in MarkdownLines}

SlicerInit ==
    /\ markdown \in {[exists |-> TRUE, lines |-> f] : f \in Files(MaxLines)}
                    \cup {[exists |-> FALSE, lines |-> <<>>]}
    /\ slicer = Nothing
    /\ payload = Nothing
    /\ Fresh
    /\ EmptyDb
    /\ NoObject
    /\ NoHeap
    /\ NoScope
    /\ backend = "sqlite"

\* MarkdownSlicer(path_to_md)
Slice ==
    /\ slicer = Nothing
    /\ slicer' = parse(markdown)
    /\ UNCHANGED <<searchVars, treeVars, apiVars, fieldVars, heapVars, scopeVars, markdown>>

SlicerNext == Slice

SlicerSpec == SlicerInit /\ [][SlicerNext]_vars

-----------------------------------------------------------------------------
(* Walks over trees and payloads used to state the properties *)

RECURSIVE Nodes(_)
\* every node of a deserialized tree, the root included
Nodes(node) ==
    {node} \cup
    CASE node.cls = "NotSearchModel" -> Nodes(node.f["child"])
      [] node.cls \in {"OrSearchModel", "AndSearchModel"} ->
            UNION {Nodes(node.f["children"].l[i]) : i \in DOMAIN node.f["children"].l}
      [] OTHER -> {}

RECURSIVE RawNodes(_)
\* every value of a raw payload that the deserializer is handed as a node:
\* the payload, the value of child, the elements of children, at any depth
RawNodes(v) ==
    {v} \cup
    (IF v.k = "map" /\ "child" \in DOMAIN v.m THEN RawNodes(v.m["child"]) ELSE {})
    \cup
    (IF v.k = "map" /\ "children" \in DOMAIN v.m /\ v.m["children"].k = "list"
     THEN UNION {RawNodes(v.m["children"].l[i]) : i \in DOMAIN v.m["children"].l}
     ELSE {})

\* the five discriminator values
TypeNames == {model_class_name(cls) : cls \in Classes}

\* the raw node names a variant and carries a key that the variant does not declare
HasUnknownKey(v) ==
    /\ v.k = "map"
    /\ "type" \in DOMAIN v.m
    /\ v.m["type"].k = "str"
    /\ v.m["type"].s \in TypeNames
    /\ ~(DOMAIN v.m \subseteq FieldSet(v.m["type"].s \o "SearchModel"))

\* the classes that accept a value
Accepting(v) == {cls \in Classes : ~IsErr(validate_model(cls, v))}

\* orders of the members of the SearchModel union: every rotation of the
\* declared order and of its reverse, so that each member comes first in
\* some order and each two members come in both relative orders
UnionOrders ==
    LET n == Len(SearchModel)
    IN {[i \in 1..n |-> SearchModel[((i + r) % n) + 1]] : r \in 1..n}
       \cup {[i \in 1..n |-> SearchModel[n - ((i + r) % n)]] : r \in 1..n}

-----------------------------------------------------------------------------
(* Properties of deserialization and serialization (specification Spec) *)

\* C1: round trip.  Whenever a tree was deserialized, serialized with unset
\* fields excluded and deserialized again, the second tree equals the first:
\* same class at every position, same children in the same order, same
\* field values and the same set of explicitly set fields.
C1_RoundTrip ==
    (IsModel(model) /\ reparsed # Nothing) => reparsed = model

\* a nested tree with an explicitly set null field has made the round trip
C1_Witness ==
    /\ IsModel(model)
    /\ reparsed = model
    /\ model.cls = "AndSearchModel"
    /\ \E n \in Nodes(model) :
          n.cls = "UserSearchModel" /\ "first_name" \in n.set /\ n.f["first_name"] = PyNone

\* C2: discriminator enforcement.  A payload whose type is absent or null is
\* rejected whatever it is deserialized into; a node of class V is only built
\* from a payload whose type T satisfies T + "SearchModel" = V; and every
\* node of a deserialized tree carries the type tag of its class.
C2_Discriminator ==
    model # Nothing =>
        /\ (~has_field(payload, "type") \/ get_field(payload, "type") = PyNone)
              => IsErr(model)
        /\ IsModel(model) =>
              /\ get_field(payload, "type").k = "str"
              /\ get_field(payload, "type").s \o "SearchModel" = model.cls
              /\ target \in Classes => model.cls = target
              /\ \A n \in Nodes(model) :
                    n.f["type"].k = "str" /\ n.f["type"].s \o "SearchModel" = n.cls

\* a payload of type User was rejected by CompanySearchModel
C2_Witness ==
    /\ target = "CompanySearchModel"
    /\ has_field(payload, "type")
    /\ get_field(payload, "type") = PyStr("User")
    /\ DOMAIN payload.m = {"type"}
    /\ IsErr(model)

\* C3: polymorphic deserialization.  After parse_obj_as(SearchModel, payload):
\* at most one class of the union accepts any node of the payload, so the
\* result is the same for every order of the union's members; a result is an
\* instance of the class named by the payload's type; and a payload whose
\* type is none of the five names is rejected.  (Stated of the state that
\* parse_obj_as leaves, before the tree is serialized.)
C3_Polymorphic ==
    (target = "SearchModel" /\ dumped = Nothing) =>
        /\ \A v \in RawNodes(payload) : Cardinality(Accepting(v)) <= 1
        /\ \A order \in UnionOrders : validate_union(order, payload) = model
        /\ IsModel(model) =>
              /\ Accepting(payload) = {model.cls}
              /\ get_field(payload, "type").s \o "SearchModel" = model.cls
        /\ (has_field(payload, "type") /\ get_field(payload, "type").k = "str"
              /\ get_field(payload, "type").s \notin TypeNames) => IsErr(model)

\* an And payload with children was deserialized into an AndSearchModel
C3_Witness ==
    /\ target = "SearchModel"
    /\ IsModel(model)
    /\ payload.k = "map"
    /\ payload.m["type"] = PyStr("And")
    /\ model.cls = "AndSearchModel"
    /\ Len(model.f["children"].l) = 2

\* C4: strict schema.  A payload in which any node, at any depth, carries a
\* key that its variant does not declare is rejected as a whole.
C4_StrictSchema ==
    (model # Nothing /\ \E v \in RawNodes(payload) : HasUnknownKey(v))
        => IsErr(model)

\* a payload whose nested child carries an unknown key was rejected by the union
C4_Witness ==
    /\ target = "SearchModel"
    /\ IsErr(model)
    /\ has_field(payload, "type")
    /\ get_field(payload, "type") = PyStr("Not")
    /\ has_field(payload, "child")
    /\ ~HasUnknownKey(payload)
    /\ HasUnknownKey(get_field(payload, "child"))

-----------------------------------------------------------------------------
(* Properties of rendering and search (specification SearchSpec) *)

\* the entity classes of the leaves of a tree
LeafClasses(node) == {n.cls : n \in Nodes(node)} \cap EntityClasses

\* the table of an entity class
TableOf(cls) == TableName(model_class_name(cls))

\* an entity leaf none of whose fields other than type was provided
IsBareLeaf(node) == node.cls \in EntityClasses /\ node.set \subseteq {"type"}

\* the children of an And or Or node
Children(node) == node.f["children"].l

RECURSIVE Holds(_, _)
\* the tree evaluated recursively on a row: a leaf holds when every field
\* that was set equals the row's column of the same name, And when all
\* children hold, Or when some child holds, Not when its child does not
Holds(node, row) ==
    CASE node.cls \in EntityClasses ->
            \A field \in node.set \ {"type"} : row[field] = node.f[field]
      [] node.cls = "NotSearchModel" -> ~Holds(node.f["child"], row)
      [] node.cls = "AndSearchModel" ->
            \A i \in DOMAIN Children(node) : Holds(Children(node)[i], row)
      [] node.cls = "OrSearchModel" ->
            \E i \in DOMAIN Children(node) : Holds(Children(node)[i], row)

\* no column of the row is null
NoNulls(row) == \A col \in DOMAIN row \ {"table"} : row[col] # PyNone

\* the search returned the row
Matched(row, out) == ~IsErr(out) /\ row \in out.rows

RECURSIVE Binaries(_)
\* the comparisons of a condition
Binaries(c) ==
    CASE c.k = "binary"     -> {c}
      [] c.k = "clauselist" -> UNION {Binaries(c.clauses[i]) : i \in DOMAIN c.clauses}
      [] OTHER              -> Binaries(c.element)

\* a search was executed on the table of the one entity of the tree's leaves
SearchedOwnTable ==
    /\ results # Nothing
    /\ LeafClasses(model) # {}
    /\ \A cls \in LeafClasses(model) : TableOf(cls) = results.table

\* C5: the rendered condition selects the rows on which the tree holds.
\* For a tree whose leaves belong to one entity and every row of that entity
\* without null columns, the search returns the row exactly when the tree,
\* evaluated recursively, holds on it.  The code violates this.
C5_RenderMatchesTree ==
    SearchedOwnTable =>
        \A row \in TableRows(results.table) :
            NoNulls(row) => (Matched(row, results.out) <=> Holds(model, row))

\* C6: And(children=[]) selects every row and Or(children=[]) selects no
\* row.  The code violates this for Or.
C6_EmptyCombinators ==
    (results # Nothing /\ model.cls \in {"AndSearchModel", "OrSearchModel"}
        /\ Children(model) = <<>>) =>
        /\ ~IsErr(results.out)
        /\ model.cls = "AndSearchModel" => results.out.rows = TableRows(results.table)
        /\ model.cls = "OrSearchModel"  => results.out.rows = {}

\* C7: an And or Or with a single child X renders to the very condition
\* that X renders to, with nothing wrapped around it.
C7_SingleChild ==
    (condition # Nothing /\ model.cls \in {"AndSearchModel", "OrSearchModel"}
        /\ Len(Children(model)) = 1) =>
        condition = render_condition(Children(model)[1])

\* an Or whose only child is an And of two leaves has been rendered
C7_Witness ==
    /\ condition # Nothing
    /\ model.cls = "OrSearchModel"
    /\ Len(Children(model)) = 1
    /\ Children(model)[1].cls = "AndSearchModel"
    /\ Len(Children(Children(model)[1])) = 2
    /\ condition.k = "clauselist"
    /\ Len(condition.clauses) = 2

\* C8: a leaf with no set fields selects every row of its entity, also as
\* the child of Not (which then selects no row), of Or (which then selects
\* every row) and of And (where it constrains nothing).  The code violates
\* this under Not and under Or.
C8_BareLeaf ==
    SearchedOwnTable =>
        /\ IsBareLeaf(model) => results.out = [k |-> "rows", rows |-> TableRows(results.table)]
        /\ (model.cls = "NotSearchModel" /\ IsBareLeaf(model.f["child"]))
              => results.out = [k |-> "rows", rows |-> {}]
        /\ (model.cls = "OrSearchModel"
              /\ \E i \in DOMAIN Children(model) : IsBareLeaf(Children(model)[i]))
              => results.out = [k |-> "rows", rows |-> TableRows(results.table)]
        /\ (model.cls = "AndSearchModel" /\ Children(model) # <<>>
              /\ \A i \in DOMAIN Children(model) : IsBareLeaf(Children(model)[i]))
              => results.out = [k |-> "rows", rows |-> TableRows(results.table)]

\* C9 as claimed: a leaf renders a comparison for a field exactly when the
\* caller provided the field, an explicit null included.
C9_ComparesSetFields ==
    (condition # Nothing /\ model.cls \in EntityClasses) =>
        \A field \in FieldSet(model.cls) \ {"type"} :
            (field \in model.set) <=> (\E b \in Binaries(condition) : b.col = field)

\* C9 as amended: a leaf renders one equality comparison, with the field's
\* value, for each field other than type whose value is not null, and no
\* comparison for any other field: a field that was not provided or was
\* provided as null is not compared, not even with IS NULL.
C9_ComparesNonNullFields ==
    (condition # Nothing /\ model.cls \in EntityClasses) =>
        /\ \A field \in FieldSet(model.cls) \ {"type"} :
              (model.f[field] # PyNone) <=>
                  (\E b \in Binaries(condition) : b.col = field)
        /\ \A b \in Binaries(condition) :
              /\ b.op = "eq"
              /\ b.table = TableOf(model.cls)
              /\ b.val = model.f[b.col]
              /\ b.val # PyNone

\* a leaf with an explicitly null field and a non-null field has been rendered
C9_Witness ==
    /\ condition # Nothing
    /\ model.cls = "UserSearchModel"
    /\ "first_name" \in model.set
    /\ model.f["first_name"] = PyNone
    /\ model.f["last_name"] = PyStr("Doe")
    /\ condition = BinaryExpression("eq", "users", "last_name", PyStr("Doe"))

\* what searching the table with the condition of the child of a Not returns
ChildOut == select_where(results.table, render_condition(model.f["child"]))

-----------------------------------------------------------------------------
(* Properties of the operations on trees, under TreeSpec and AssignSpec *)

RECURSIVE Leaves(_)
\* the entity leaves of a deserialized tree, in pre-order, left to right,
\* one entry for each occurrence
Leaves(node) ==
    CASE node.cls \in EntityClasses -> <<node>>
      [] node.cls = "NotSearchModel" -> Leaves(node.f["child"])
      [] OTHER ->
            LET cs == node.f["children"].l
                sub == [i \in DOMAIN cs |-> Leaves(cs[i])]
            IN Concat(sub)

\* the payload is a raw tree (nested mappings, no constructed instance) that
\* the deserializer accepts
ValidRawTree ==
    /\ \A v \in RawNodes(payload) : v.k = "map"
    /\ IsModel(parse_obj_as("SearchModel", payload))

\* C11: for every valid raw tree, entities_for_search_model returns the
\* entity leaves of the tree in pre-order, left to right, one entry for each
\* leaf occurrence, duplicates kept.
C11_EntitiesInPreOrder ==
    (instances # Nothing /\ ValidRawTree) =>
        /\ ~IsErr(instances)
        /\ instances.l = Leaves(parse_obj_as("SearchModel", payload))

\* the entities of a tree with two different leaves, and of one with the
\* same leaf twice, were extracted
C11_Witness ==
    /\ instances # Nothing
    /\ ValidRawTree
    /\ ~IsErr(instances)
    /\ Len(instances.l) = 2
    /\ instances.l[1] # instances.l[2]
    /\ instances.l[1].set # {"type"}

\* C12: for every tree that the deserializer accepts, entity_class_for_tree
\* returns an entity class, that of the leaf reached through `child` and
\* through the first element of `children`.
C12_EntityClassForTree ==
    (entity_class # Nothing /\ assigned = Nothing) =>
        /\ ~IsErr(entity_class)
        /\ entity_class.s \in {"User", "Company"}

\* the fields of a leaf that hold integers, and those that hold strings
IntFields == {"id", "company_id"}
StrFields == {"first_name", "last_name", "email"}

\* the raw value is a mapping tagged as an entity leaf
IsLeafPayload(v) ==
    /\ v.k = "map"
    /\ "type" \in DOMAIN v.m
    /\ v.m["type"] \in {PyStr("User"), PyStr("Company")}

\* the string is the decimal form of a natural number
IsDecimal(str) ==
    /\ Len(str) > 0
    /\ \A i \in 1..Len(str) :
          SubSeq(str, i, i) \in {"0", "1", "2", "3", "4", "5", "6", "7", "8", "9"}

\* the leaf gives a string for an integer field, or an integer or a mapping
\* for a string field
Mistyped(v, field) ==
    /\ IsLeafPayload(v)
    /\ field \in DOMAIN v.m
    /\ \/ field \in IntFields /\ v.m[field].k = "str"
       \/ field \in StrFields /\ v.m[field].k \in {"int", "map"}

\* as Mistyped, where the string given for an integer is not a decimal number
Unparsable(v, field) ==
    /\ Mistyped(v, field)
    /\ field \in IntFields => ~IsDecimal(v.m[field].s)

\* the payload is deserialized as the union or as the class that its type names
AsOwnClass ==
    target \in {"SearchModel", get_field(payload, "type").s \o "SearchModel"}

\* C13 as stated: a leaf in which a string is given for an integer field, or
\* an integer or a mapping for a string field, is rejected with an error
\* that names the field; no node is produced.
C13_TypeViolation ==
    model # Nothing =>
        \A field \in IntFields \cup StrFields :
            /\ (\E v \in RawNodes(payload) : Mistyped(v, field)) => IsErr(model)
            /\ (Mistyped(payload, field) /\ AsOwnClass)
                  => IsErr(model) /\ <<field>> \in model.loc

\* C13 as the code has it: a leaf in which a string that is not a decimal
\* number is given for an integer field, or an integer or a mapping for a
\* string field, is rejected with an error that names the field, and no
\* node is produced; a decimal string given for an integer field is
\* accepted and stored as the integer.
C13_UnparsableTypeViolation ==
    model # Nothing =>
        \A field \in IntFields \cup StrFields :
            /\ (\E v \in RawNodes(payload) : Unparsable(v, field)) => IsErr(model)
            /\ (Unparsable(payload, field) /\ AsOwnClass)
                  => IsErr(model) /\ <<field>> \in model.loc
            /\ (Mistyped(payload, field) /\ ~Unparsable(payload, field)
                  /\ AsOwnClass /\ DOMAIN payload.m = {"type", field})
                  => IsModel(model) /\ model.f[field].k = "int"

\* UserSearchModel(type="User", id="not a number") was rejected
C13_Witness ==
    /\ payload = Obj2("type", PyStr("User"), "id", PyStr("not a number"))
    /\ target = "UserSearchModel"
    /\ IsErr(model)
    /\ model.loc = {<<"id">>}

\* the value assigned to the field of the node is a string where the field
\* holds integers, or an integer or a mapping where it holds strings
MistypedAssign(a) ==
    /\ a.field \in FieldSet(a.before.cls)
    /\ \/ a.field \in IntFields /\ a.value.k = "str"
       \/ a.field \in StrFields \cup {"name"} /\ a.value.k \in {"int", "map"}

\* as MistypedAssign, where the string is not a decimal number
UnparsableAssign(a) ==
    /\ MistypedAssign(a)
    /\ a.field \in IntFields => ~IsDecimal(a.value.s)

\* C14 as stated: assigning a wrong-typed value to a field of a constructed
\* node fails with a validation error, is not coerced, and leaves the field
\* (and the node) as it was.
C14_AssignmentValidated ==
    (assigned # Nothing /\ MistypedAssign(assigned)) =>
        /\ IsErr(assigned.out)
        /\ model = assigned.before

\* C14 as the code has it: assigning an integer or a mapping to a string
\* field, or a string that is not a decimal number to an integer field,
\* fails with a validation error and leaves the node as it was; a decimal
\* string assigned to an integer field of a node that still carries the
\* type tag of its class is coerced and the integer is stored.
C14_AssignmentValidatedUnlessNumeric ==
    assigned # Nothing =>
        /\ UnparsableAssign(assigned) =>
              /\ IsErr(assigned.out)
              /\ model = assigned.before
        /\ (MistypedAssign(assigned) /\ ~UnparsableAssign(assigned)
               /\ discriminator(assigned.before.cls, assigned.before)) =>
              /\ IsModel(assigned.out)
              /\ model = assigned.out
              /\ model.f[assigned.field].k = "int"
              /\ \A field \in DOMAIN model.f \ {assigned.field} :
                    model.f[field] = assigned.before.f[field]

\* user.first_name = 1 was rejected on a user whose first name is John
C14_Witness ==
    /\ assigned # Nothing
    /\ assigned.field = "first_name"
    /\ assigned.value = PyInt(1)
    /\ assigned.before.cls = "UserSearchModel"
    /\ assigned.before.f["first_name"] = PyStr("John")
    /\ IsErr(assigned.out)
    /\ model = assigned.before

-----------------------------------------------------------------------------
(* The search endpoints, under SearchSpec *)

\* C15: the search endpoints return exactly the stored rows of their entity
\* that satisfy the rendered condition, in ascending id order.  The code
\* violates this: its statement has no ORDER BY clause.
C15_SearchOrderedById ==
    (results # Nothing /\ ~IsErr(results.out)) =>
        /\ {results.order[i] : i \in DOMAIN results.order}
              = {row \in TableRows(results.table) :
                    Blank(condition) \/ Truth(condition, row) = "true"}
        /\ Len(results.order) = Cardinality(results.out.rows)
        /\ \A i, j \in DOMAIN results.order :
              i < j => results.order[i].id.i < results.order[j].id.i

-----------------------------------------------------------------------------
(* Properties of the CRUD endpoints                                        *)

\* a request was answered
Answered == "op" \in DOMAIN response

\* the response is a 404 whose message says that the entity was not found
NotFound(resp) ==
    /\ resp.status = 404
    /\ resp.detail \in {"User not found", "Company not found"}

\* C16: after a DELETE of an existing user or company id answered 204, every
\* GET or DELETE of that id issued before a later create in the table
\* answers 404 "not found" and changes no stored entity; a DELETE of an id
\* that is not stored answers 404 and changes nothing.
C16_DeletedStaysNotFound ==
    [][\A id \in Ids :
         /\ (<<"users", id>> \in deleted /\ (get_user_by_id(id) \/ delete_user(id)))
               => (NotFound(response') /\ UNCHANGED <<users, companies>>)
         /\ (<<"companies", id>> \in deleted
             /\ (get_company_by_id(id) \/ delete_company(id)))
               => (NotFound(response') /\ UNCHANGED <<users, companies>>)
         /\ (session_get(users, id) = PyNone /\ delete_user(id))
               => (NotFound(response') /\ UNCHANGED <<users, companies>>)
         /\ (session_get(companies, id) = PyNone /\ delete_company(id))
               => (NotFound(response') /\ UNCHANGED <<users, companies>>)]_vars

\* every user id was deleted and not created again, and the last request
\* was a GET or a DELETE of a user, which the server answered with 404
C16_Witness ==
    /\ Answered
    /\ {"users"} \X Ids \subseteq deleted
    /\ response.table = "users"
    /\ response.op \in {"GET", "DELETE"}
    /\ NotFound(response)

\* the update set of a request: the fields of UserBase that the request sets
UpdateSet(body, partial) ==
    IF partial THEN DOMAIN body \cap Range(UserBaseFields) ELSE Range(UserBaseFields)

\* the row that an update is said to leave: the fields of the update set
\* take the values of the body, a non-null password stores its hash, and
\* every other column keeps its value
Updated(row, body, partial) ==
    [col \in DOMAIN row |->
        IF col \in UpdateSet(body, partial) THEN FieldOr(body, col)
        ELSE IF col = "hashed_password" /\ FieldOr(body, "password") # PyNone
        THEN hash(body["password"])
        ELSE row[col]]

\* C17: a successful user update sets exactly the fields of its update set
\* (PATCH: the fields of the body; PUT: every field, absent ones as null)
\* and leaves the others, id included, unchanged; an absent or null password
\* leaves hashed_password unchanged, and a non-null password stores its hash;
\* an update of an id that is not stored answers 404 and changes nothing.
C17_UpdateSetsUpdateSet ==
    [][\A id \in Ids, body \in UserUpdateBodies, partial \in BOOLEAN :
         process_user_update(id, body, partial) =>
            LET row == session_get(users, id)
                wanted == Updated(row, body, partial)
            IN /\ row = PyNone
                    => (NotFound(response') /\ UNCHANGED <<users, companies>>)
               /\ (row # PyNone /\ response'.status = 200)
                    => (users' = (users \ {row}) \cup {wanted} /\ UNCHANGED companies)
               /\ (/\ row # PyNone
                   /\ FieldOr(body, "password") # PyNone
                   /\ FieldOr(body, "email") = PyNone \/ validate_email(FieldOr(body, "email"))
                   /\ commit_ok((users \ {row}) \cup {wanted}, companies))
                    => session_get(users', id).hashed_password = hash(body["password"])]_vars

\* the body of a create passes the validation of UserCreate and of the email
ValidCreate(body) ==
    /\ "password" \in DOMAIN body
    /\ body["password"].k = "str"
    /\ validate_email(FieldOr(body, "email"))

\* the company_id of the body is set and is the id of no stored company
UnknownCompany(body) ==
    /\ FieldOr(body, "company_id") # PyNone
    /\ ~\E c \in companies : c.id = body["company_id"]

\* the answer to a create that names an unknown company
CompanyNotFound(resp) ==
    /\ resp.status = 404
    /\ resp.detail = "Company not found for User"

\* C18 as stated: creating a user whose company_id is set and is the id of
\* no stored company answers 404 "Company ... not found for User" and stores
\* no user; a create with company_id unset requires no company to exist.
C18_UnknownCompanyNotFound ==
    [][\A body \in UserCreateBodies :
         create_user(body) =>
            /\ UnknownCompany(body) => (CompanyNotFound(response') /\ UNCHANGED users)
            /\ FieldOr(body, "company_id") = PyNone => ~CompanyNotFound(response')]_vars

\* C18: creating a user with a password and a valid email whose company_id
\* is set and is the id of no stored company answers 404 "Company ... not
\* found for User"; whatever the body, such a create stores no user; a
\* create with company_id unset is never answered that way.
C18_ValidUnknownCompanyNotFound ==
    [][\A body \in UserCreateBodies :
         create_user(body) =>
            /\ UnknownCompany(body) => UNCHANGED users
            /\ (UnknownCompany(body) /\ ValidCreate(body)) => CompanyNotFound(response')
            /\ FieldOr(body, "company_id") = PyNone => ~CompanyNotFound(response')]_vars

\* a create was answered 404 while no company is stored, and a user without
\* a company is stored although no company is
C18_Witness ==
    /\ Answered
    /\ response.op = "POST"
    /\ response.table = "users"
    /\ CompanyNotFound(response)
    /\ companies = {}
    /\ \E u \in users : u.company_id = PyNone

\* no two stored users have the same email
EmailsDistinct ==
    \A u1, u2 \in users : u1.email = u2.email => u1.id = u2.id

\* the email of the body is that of a stored user
StoredEmail(body) ==
    \E u \in users : u.email = FieldOr(body, "email")

\* C19 as stated: no two stored users ever have the same email, and a create
\* whose email is that of a stored user is answered 409 and leaves the
\* stored users unchanged.
C19_UniqueEmails ==
    [][/\ EmailsDistinct'
       /\ \A body \in UserCreateBodies :
            (create_user(body) /\ StoredEmail(body))
               => (response'.status = 409 /\ UNCHANGED users)]_vars

\* C19: no two stored users ever have the same email; a create whose email
\* is that of a stored user leaves the stored users unchanged, and it is
\* answered 409 when it has a password and its company_id is unset or the
\* id of a stored company.
C19_UniqueEmailsValidCreate ==
    [][/\ EmailsDistinct'
       /\ \A body \in UserCreateBodies :
            (create_user(body) /\ StoredEmail(body))
               => /\ UNCHANGED users
                  /\ (ValidCreate(body) /\ ~UnknownCompany(body))
                        => response'.status = 409]_vars

\* a user is stored, and the last create was answered 409
C19_Witness ==
    /\ Answered
    /\ users # {}
    /\ response.op = "POST"
    /\ response.table = "users"
    /\ response.status = 409

-----------------------------------------------------------------------------
(* Properties of the introspection helpers                                 *)

\* what a mapping or a record stores: its items, or its attributes
Stored(o) == IF o.k = "map" THEN o.m ELSE o.f

\* C20: for a mapping or a record, get_field returns the stored value
\* exactly when has_field is true, a stored None included; otherwise it
\* fails with KeyError (mapping) or AttributeError (record); the value is
\* left as it was.
C20_GetFieldIffHasField ==
    (fetched # Nothing /\ fetched.op = "get_field") =>
        /\ fetched.has = (fetched.field \in DOMAIN Stored(subject))
        /\ fetched.has => fetched.out = Stored(subject)[fetched.field]
        /\ ~fetched.has =>
              fetched.out = Err(IF subject.k = "map" THEN "KeyError" ELSE "AttributeError")
        /\ ~IsErr(fetched.out) <=> fetched.has
        /\ subject = fetched.before

\* get_field returned the None that a record stores in a field
C20_Witness ==
    /\ fetched # Nothing
    /\ fetched.op = "get_field"
    /\ subject.k = "model"
    /\ fetched.has
    /\ fetched.out = PyNone

-----------------------------------------------------------------------------
(* Properties of node instances                                            *)

\* the places that refer to an instance: <<parent, position>>
Parents(node) ==
    {<<parent, i>> \in Built \X (1..2) :
        i <= Len(heap[parent].kids) /\ heap[parent].kids[i] = node}

RECURSIVE Below(_, _)
\* the instances reached from an instance in 1..steps steps along child
\* and children
Below(node, steps) ==
    IF steps = 0 THEN {}
    ELSE LET kids == {heap[node].kids[i] : i \in DOMAIN heap[node].kids}
         IN kids \cup UNION {Below(kid, steps - 1) : kid \in kids}

\* C22: after any sequence of node constructions (from mappings or from
\* built instances) and field assignments, every node has at most one
\* parent, no node is reachable from itself, and every node has the fields
\* that it was constructed with.
C22_ImmutableStrictTree ==
    \A node \in Built :
        /\ Cardinality(Parents(node)) <= 1
        /\ node \notin Below(node, Len(heap))
        /\ heap[node].first_name = heap[node].built.first_name
        /\ heap[node].kids = heap[node].built.kids

\* C23: render_condition terminates on every tree that deserialization,
\* direct construction and validated assignment of child / children can
\* produce, and it visits the nodes depth-first in pre-order, each node
\* exactly once.
C23_RenderVisitsOnce ==
    rendered # Nothing =>
        /\ ~IsErr(rendered.calls)
        /\ rendered.calls.l[1] = rendered.node
        /\ \A i, j \in DOMAIN rendered.calls.l :
              rendered.calls.l[i] = rendered.calls.l[j] => i = j
        /\ {rendered.calls.l[i] : i \in DOMAIN rendered.calls.l}
              = {rendered.node} \cup Below(rendered.node, Len(heap))

-----------------------------------------------------------------------------
(* Properties of deserialization as a whole                                *)

\* the raw value cannot be a node: it is no mapping and no instance, its
\* type is missing, null or no discriminator value, it carries a key that
\* its variant does not declare, one of its fields has a value that the
\* declared type does not admit, or its children are no list
InvalidNode(v) ==
    \/ v.k \notin {"map", "model"}
    \/ /\ v.k = "map"
       /\ \/ "type" \notin DOMAIN v.m
          \/ v.m["type"] = PyNone
          \/ Format(v.m["type"]) \notin TypeNames
          \/ HasUnknownKey(v)
          \/ \E field \in IntFields \cup StrFields : Unparsable(v, field)
          \/ "children" \in DOMAIN v.m /\ v.m["children"].k # "list"

RECURSIVE Size(_)
\* the number of node occurrences of a tree
Size(node) ==
    CASE node.cls = "NotSearchModel" -> 1 + Size(node.f["child"])
      [] node.cls \in {"OrSearchModel", "AndSearchModel"} ->
            LET cs == node.f["children"].l
                RECURSIVE Sum(_)
                Sum(i) == IF i = 0 THEN 0 ELSE Size(cs[i]) + Sum(i - 1)
            IN 1 + Sum(Len(cs))
      [] OTHER -> 1

RECURSIVE RawSize(_)
\* the number of values that a raw payload hands to the deserializer as nodes
RawSize(v) ==
    IF v.k = "model" THEN Size(v)
    ELSE IF v.k # "map" THEN 1
    ELSE 1 + (IF "child" \in DOMAIN v.m THEN RawSize(v.m["child"]) ELSE 0)
           + (IF "children" \in DOMAIN v.m /\ v.m["children"].k = "list"
              THEN LET cs == v.m["children"].l
                       RECURSIVE Sum(_)
                       Sum(i) == IF i = 0 THEN 0 ELSE RawSize(cs[i]) + Sum(i - 1)
                   IN Sum(Len(cs))
              ELSE 0)

\* C24: deserialization is all-or-nothing: when any node of the input, at
\* any depth, is invalid (missing or mismatched type, unknown field, wrong
\* field type, child that is not a node), the whole input is rejected and
\* no tree is returned; a tree that is returned has a node for every node
\* of the input, none dropped.
C24_AllOrNothing ==
    model # Nothing =>
        /\ (\E v \in RawNodes(payload) : InvalidNode(v)) => IsErr(model)
        /\ IsModel(model) => Size(model) = RawSize(payload)

\* an input whose root and first child are valid and in which a node below
\* is not was rejected as a whole
C24_Witness ==
    /\ model # Nothing
    /\ target = "SearchModel"
    /\ ~InvalidNode(payload)
    /\ \E v \in RawNodes(payload) \ {payload} : ~InvalidNode(v)
    /\ \E v \in RawNodes(payload) \ {payload} : InvalidNode(v)
    /\ IsErr(model)

-----------------------------------------------------------------------------
(* Properties of the walk of a raw payload                                 *)

RECURSIVE Visited(_)
\* the values that a walk of a raw payload is handed, in the order of the
\* walk when nothing stops it: a value, then its child, then its children
Visited(data) ==
    IF data.k # "map" THEN <<data>>
    ELSE <<data>>
         \o (IF "child" \in DOMAIN data.m THEN Visited(data.m["child"]) ELSE <<>>)
         \o (IF "children" \in DOMAIN data.m /\ data.m["children"].k = "list"
             THEN Concat([i \in DOMAIN data.m["children"].l |->
                             Visited(data.m["children"].l[i])])
             ELSE <<>>)

\* the value is a mapping tagged as an entity that the deserializer rejects
RejectedEntity(v) ==
    IsLeafPayload(v) /\ IsErr(parse_obj_as("SearchModel", v))

\* ValueError and its subclass ValidationError
IsValueError(e) == IsErr(e) /\ e.msg \in {"ValueError", "union"}

\* C25: entities_for_search_model raises ValueError and returns no list
\* whenever a children element or child value that the walk reaches, at any
\* depth, is not a mapping, whatever leaves were collected before it.
C25_NonMappingRaises ==
    instances # Nothing =>
        LET walk == Visited(payload)
            bad  == {i \in DOMAIN walk : walk[i].k # "map"}
        IN bad # {} =>
              /\ IsValueError(instances)
              /\ (\A j \in 1..(Least(bad) - 1) : ~RejectedEntity(walk[j]))
                    => instances.msg = "ValueError"

\* the walk collected an entity and then met a child that is no mapping
C25_Witness ==
    /\ instances # Nothing
    /\ payload.k = "map"
    /\ "children" \in DOMAIN payload.m
    /\ Len(payload.m["children"].l) = 2
    /\ ~IsErr(entities_for_search_model(payload.m["children"].l[1]))
    /\ Len(entities_for_search_model(payload.m["children"].l[1]).l) = 1
    /\ payload.m["children"].l[2].k # "map"
    /\ instances = Err("ValueError")

\* the value is a mapping whose type names an entity and which holds child
\* or children
Mixed(v) ==
    /\ IsLeafPayload(v)
    /\ DOMAIN v.m \cap {"child", "children"} # {}

\* what the walks of the child and of the children of a mapping return
Beneath(v) ==
    (IF "child" \in DOMAIN v.m
     THEN entities_for_search_model(v.m["child"]).l ELSE <<>>)
    \o (IF "children" \in DOMAIN v.m
        THEN Concat([i \in DOMAIN v.m["children"].l |->
                        entities_for_search_model(v.m["children"].l[i]).l])
        ELSE <<>>)

\* C26 as stated: a mapping whose type names an entity leaf and which also
\* has a child or children key contributes itself to the result and then has
\* its child / children walked, the node preceding the entities beneath it.
C26_EntityAndRecursion ==
    (instances # Nothing /\ Mixed(payload)
       /\ \A v \in RawNodes(payload) : v.k = "map") =>
        /\ ~IsErr(instances)
        /\ Len(instances.l) = 1 + Len(Beneath(payload))
        /\ instances.l[1].cls = payload.m["type"].s \o "SearchModel"
        /\ SubSeq(instances.l, 2, Len(instances.l)) = Beneath(payload)

\* C26 as the code has it: the entity check and the walk of child and
\* children are separate statements, but a mapping whose type names an
\* entity and which holds child or children is rejected by parse_obj_as
\* (extra = forbid), so the call raises ValidationError before anything
\* beneath is walked, wherever in the payload the mapping is reached; an
\* entity mapping for which a list is returned contributes itself alone.
C26_EntityWithChildrenRejected ==
    instances # Nothing =>
        /\ (\E v \in RawNodes(payload) : Mixed(v)) => IsErr(instances)
        /\ Mixed(payload) =>
              /\ instances.msg = "union"
              /\ \E key \in {"child", "children"} :
                    <<key>> \in instances.loc
        /\ (IsLeafPayload(payload) /\ ~IsErr(instances)) =>
              instances.l = <<parse_obj_as("SearchModel", payload)>>

\* the walk of a user mapping that holds a well-formed child raised
C26_Witness ==
    /\ instances # Nothing
    /\ Mixed(payload)
    /\ "child" \in DOMAIN payload.m
    /\ ~IsErr(entities_for_search_model(payload.m["child"]))
    /\ IsErr(instances)

-----------------------------------------------------------------------------
(* Properties of entity name resolution                                    *)

\* the entity leaves of a tree
EntityLeaves(tree) ==
    {node \in Nodes(tree) :
        node.cls \notin {"NotSearchModel", "OrSearchModel", "AndSearchModel"}}

\* C27: entity name resolution never fails on a validated tree: for every
\* tree that the deserializer accepts, the class name of each entity leaf
\* minus "SearchModel", and the value of its type field, name a registered
\* storage entity (User or Company), so that the lookup of the entity in
\* render_condition cannot fail.
C27_EntityNameResolves ==
    IsModel(model) =>
        \A node \in EntityLeaves(model) :
            /\ ~IsErr(globals(PyStr(model_class_name(node.cls))))
            /\ ~IsErr(globals(node.f["type"]))
            /\ globals(node.f["type"]) = globals(PyStr(model_class_name(node.cls)))

\* the entity of a tree with a user leaf and a company leaf was looked up
C27_Witness ==
    /\ IsModel(model)
    /\ entity_class # Nothing
    /\ ~IsErr(entity_class)
    /\ {node.cls : node \in EntityLeaves(model)} = EntityClasses

-----------------------------------------------------------------------------
(* Properties of ephemeral_transaction_scope                               *)

\* C28: whatever the code inside ephemeral_transaction_scope does with the
\* session of adding entities, flushing and querying (it does not commit),
\* when the scope exits, normally or through an exception, every database
\* effect made inside it is rolled back and the session is closed: the
\* stored data equals what it was on entry, at exit and all the while.
C28_ScopeRollsBack ==
    (scope # Nothing /\ ~scope.committed) =>
        /\ database = scope.entry
        /\ scope.at = "exited" =>
              /\ scope.session = "closed"
              /\ scope.pending = {} /\ scope.flushed = {}

\* a scope in which a query saw an entity that was added was left, and the
\* entity is not stored
C28_Witness ==
    /\ scope # Nothing
    /\ scope.at = "exited"
    /\ ~scope.committed
    /\ scope.seen \ database # {}
    /\ scope.session = "closed"

-----------------------------------------------------------------------------
(* Properties of the tables as a whole                                     *)

\* C29: referential integrity of users to companies holds after any
\* sequence of API requests (user create, PATCH, PUT, delete; company
\* create, update, delete): the company_id of every stored user is null or
\* the id of a stored company.
C29_ReferentialIntegrity ==
    \A u \in users :
        u.company_id = PyNone \/ \E c \in companies : c.id = u.company_id

-----------------------------------------------------------------------------
(* Properties of MarkdownSlicer                                            *)

\* the line is one of the two kinds of header
IsHeader(line) ==
    startswith(line, endpoints_pfx) \/ startswith(line, endpoint_pfx)

\* the bucket that owns line i of a file: that of the last header at or
\* before the line, or the system description when there is none
Owner(lines, i) ==
    LET before == {j \in 1..i : IsHeader(lines[j])}
    IN IF before = {} THEN <<"system", "">>
       ELSE LET h == CHOOSE j \in before : \A other \in before : other <= j
            IN IF startswith(lines[h], endpoints_pfx)
               THEN <<"tag", header_name(lines[h], endpoints_pfx)>>
               ELSE <<"endpoint", header_name(lines[h], endpoint_pfx)>>

RECURSIVE Owned(_, _, _)
\* the lines i, i + 1, ... of a file that a bucket owns, joined in file order
Owned(lines, bucket, i) ==
    IF i > Len(lines) THEN ""
    ELSE (IF Owner(lines, i) = bucket THEN lines[i] ELSE "")
         \o Owned(lines, bucket, i + 1)

\* the names of the buckets of a kind that own a line of the file
Names(lines, kind) ==
    {Owner(lines, i)[2] : i \in {j \in DOMAIN lines : Owner(lines, j)[1] = kind}}

\* C30: MarkdownSlicer assigns every line of the file to exactly one
\* bucket, in file order: the lines before the first header to the system
\* description, each line from a '# Endpoints: <tag>' header up to the next
\* header to the docs of that tag, each line from a '## Endpoint: <name>'
\* header up to the next header to the docs of that endpoint; the docs of a
\* tag hold no endpoint section, and no line is lost or duplicated.
C30_EveryLineInOneBucket ==
    (slicer # Nothing /\ markdown.exists) =>
        LET lines == markdown.lines
        IN /\ slicer.system_description = Owned(lines, <<"system", "">>, 1)
           /\ DOMAIN slicer.tag_docs = Names(lines, "tag")
           /\ \A tag \in DOMAIN slicer.tag_docs :
                 slicer.tag_docs[tag] = Owned(lines, <<"tag", tag>>, 1)
           /\ DOMAIN slicer.endpoint_docs = Names(lines, "endpoint")
           /\ \A endpoint \in DOMAIN slicer.endpoint_docs :
                 slicer.endpoint_docs[endpoint] = Owned(lines, <<"endpoint", endpoint>>, 1)

\* a file with a line of description, the header of a tag and the header of
\* an endpoint was sliced into three buckets
C30_Witness ==
    /\ slicer # Nothing
    /\ markdown.exists
    /\ slicer.system_description # ""
    /\ DOMAIN slicer.tag_docs # {}
    /\ DOMAIN slicer.endpoint_docs # {}

=============================================================================
